---- MODULE Spec2Model ----
(***************************************************************************)
(* Desert Services inspection e-mail worker.                               *)
(*                                                                         *)
(* Two specifications share this module:                                   *)
(*   SpecPure  applies the pure helpers of the parser module               *)
(*             (parseSiteName, getProjectsFolder, siteNameToSharePointPath)*)
(*             and getBackoffDelay to inputs drawn from bounded sets;       *)
(*   Spec      is the worker: the email handler, the background            *)
(*             processInspection run with generatePdf's retry loop,        *)
(*             uploadToSharePoint and sendNotification.                    *)
(*                                                                         *)
(* A JavaScript string is a sequence of characters; a character is a       *)
(* one-character TLA+ string, except U+0060 (GRAVE ACCENT) and U+FB01      *)
(* (LATIN SMALL LIGATURE FI), which the lexer does not accept inside a     *)
(* string and which are written "U+0060" and "U+FB01".                     *)
(* An optional value (null / undefined or a value) is a sequence of        *)
(* length 0 or 1.                                                          *)
(***************************************************************************)
EXTENDS Integers, Sequences, FiniteSets, TLC

VARIABLES
  call,           \* SpecPure: the pure call under check
  email,          \* the inbound message: sender and decoded content
  listing,        \* file names in the destination folder when it arrives
  script,         \* the manual upload script: its arguments and position
  hpc,            \* email handler: the await it is suspended at
  forwards,       \* message.forward invocations
  ppc,            \* processInspection: the await it is suspended at
  run,            \* processInspection's locals
  stages,         \* the steps the run has passed, in order
  notifications,  \* the data of each sendNotification call, in order
  attempt,        \* generatePdf: loop counter
  lastError,      \* generatePdf: lastError
  rejected,       \* generatePdf: what the latest rejected await threw
  browser,        \* generatePdf: browser is not null
  pdf,            \* generatePdf: page.pdf has resolved
  delay,          \* the last backoff delay, ms
  launches,       \* puppeteer.launch invocations
  failures,       \* render attempts that ended in the catch block
  waits,          \* backoff timers started
  waitsElapsed,   \* backoff timers elapsed
  status,         \* the status of the upload response that was not ok
  puts,           \* PUT requests sent to the store
  stored,         \* paths the store accepted a PUT for
  delivered       \* notifications the mail binding accepted

\* ------------------------------------------------------------------------
\* Bounds of the model
\* ------------------------------------------------------------------------

\* A site name is a concatenation of at most MaxParts tokens of SiteTokens.
MaxParts == 4
\* A contractor handed to getProjectsFolder has at most MaxContractorLen characters.
MaxContractorLen == 2
\* getBackoffDelay is applied to attempts 1..MaxAttemptArg.
MaxAttemptArg == 7
\* Math.random() takes the values k / 2^JitterBits, 0 <= k < 2^JitterBits.
JitterBits == 2
\* A decoded html part is a concatenation of at most MaxDocParts pieces.
MaxDocParts == 2
\* The local part of a generated sender address has at most MaxLocalLen
\* characters.
MaxLocalLen == 2

\* ------------------------------------------------------------------------
\* Optional values
\* ------------------------------------------------------------------------

Null == <<>>
Some(v) == <<v>>
IsNull(o) == o = <<>>
Val(o) == o[1]

\* ------------------------------------------------------------------------
\* JavaScript strings
\* ------------------------------------------------------------------------

\* The printable ASCII characters in code order, U+0020 .. U+007E.
Ascii ==
  << " ", "!", "\"", "#", "$", "%", "&", "'", "(", ")", "*", "+", ",", "-", ".", "/",
     "0", "1", "2", "3", "4", "5", "6", "7", "8", "9", ":", ";", "<", "=", ">", "?",
     "@", "A", "B", "C", "D", "E", "F", "G", "H", "I", "J", "K", "L", "M", "N", "O",
     "P", "Q", "R", "S", "T", "U", "V", "W", "X", "Y", "Z", "[", "\\", "]", "^", "_",
     "U+0060", "a", "b", "c", "d", "e", "f", "g", "h", "i", "j", "k", "l", "m", "n", "o",
     "p", "q", "r", "s", "t", "u", "v", "w", "x", "y", "z", "{", "|", "}", "~" >>

AsciiSet == {Ascii[i] : i \in 1..Len(Ascii)}

\* The UTF-16 code unit of a character.
CharCode(c) ==
  IF c \in AsciiSet THEN 31 + (CHOOSE i \in 1..Len(Ascii) : Ascii[i] = c)
  ELSE CASE c = "\t" -> 9
         [] c = "É" -> 201
         [] c = "é" -> 233
         [] c = "U+FB01" -> 64257

\* String.prototype.toUpperCase on one character: the result is a string,
\* longer than one character where Unicode's SpecialCasing says so.
UpperChar(c) ==
  IF c \in AsciiSet /\ CharCode(c) >= 97 /\ CharCode(c) <= 122
  THEN <<Ascii[CharCode(c) - 32 - 31]>>
  ELSE IF c = "é" THEN <<"É">>
  ELSE IF c = "U+FB01" THEN <<"F", "I">>
  ELSE <<c>>

\* String.prototype.toLowerCase on one character.
LowerChar(c) ==
  IF c \in AsciiSet /\ CharCode(c) >= 65 /\ CharCode(c) <= 90
  THEN <<Ascii[CharCode(c) + 32 - 31]>>
  ELSE IF c = "É" THEN <<"é">>
  ELSE <<c>>

RECURSIVE toUpperCase(_)
toUpperCase(s) ==
  IF s = <<>> THEN <<>> ELSE UpperChar(Head(s)) \o toUpperCase(Tail(s))

\* Every character of the model's alphabet has a one-character lower case.
toLowerCase(s) == [i \in 1..Len(s) |-> LowerChar(s[i])[1]]

\* The characters String.prototype.trim removes, as far as the model's
\* alphabet has them.
WhiteSpace == {" ", "\t", "\n", "\r"}

RECURSIVE trimStart(_)
trimStart(s) ==
  IF s # <<>> /\ Head(s) \in WhiteSpace THEN trimStart(Tail(s)) ELSE s

RECURSIVE trimEnd(_)
trimEnd(s) ==
  IF s # <<>> /\ s[Len(s)] \in WhiteSpace
  THEN trimEnd(SubSeq(s, 1, Len(s) - 1)) ELSE s

trim(s) == trimEnd(trimStart(s))

\* sep occurs in s at index i (1-based).
OccursAt(s, sep, i) ==
  /\ i >= 1
  /\ i + Len(sep) - 1 <= Len(s)
  /\ SubSeq(s, i, i + Len(sep) - 1) = sep

\* String.prototype.includes
includes(s, sub) == \E i \in 1..(Len(s) + 1) : OccursAt(s, sub, i)

\* String.prototype.split with a non-empty separator: scan from the left,
\* cut at each occurrence, resume after it.
RECURSIVE SplitFrom(_, _, _, _)
SplitFrom(s, sep, start, i) ==
  IF i + Len(sep) - 1 > Len(s)
  THEN <<SubSeq(s, start, Len(s))>>
  ELSE IF OccursAt(s, sep, i)
       THEN <<SubSeq(s, start, i - 1)>>
              \o SplitFrom(s, sep, i + Len(sep), i + Len(sep))
       ELSE SplitFrom(s, sep, start, i + 1)

split(s, sep) == SplitFrom(s, sep, 1, 1)

\* Array.prototype.join
RECURSIVE join(_, _)
join(parts, sep) ==
  IF parts = <<>> THEN <<>>
  ELSE IF Len(parts) = 1 THEN parts[1]
  ELSE parts[1] \o sep \o join(Tail(parts), sep)

\* Array.prototype.slice(1)
slice1(parts) == IF parts = <<>> THEN <<>> ELSE Tail(parts)

\* String.prototype.charAt(0): the empty string when there is no character.
charAt0(s) == IF s = <<>> THEN <<>> ELSE <<s[1]>>

\* a < b, a <= b on strings: lexicographic in code units.
RECURSIVE StrLess(_, _)
StrLess(a, b) ==
  IF b = <<>> THEN FALSE
  ELSE IF a = <<>> THEN TRUE
  ELSE IF CharCode(Head(a)) # CharCode(Head(b))
       THEN CharCode(Head(a)) < CharCode(Head(b))
       ELSE StrLess(Tail(a), Tail(b))

StrLE(a, b) == a = b \/ StrLess(a, b)

\* String(n) for an integer n >= 0.
RECURSIVE NumberToString(_)
NumberToString(n) ==
  IF n < 10 THEN <<Ascii[n + 17]>>
  ELSE NumberToString(n \div 10) \o <<Ascii[(n % 10) + 17]>>

\* ------------------------------------------------------------------------
\* parser: SharePoint path helpers
\* ------------------------------------------------------------------------

SpacedDash == <<" ", "-", " ">>
Dash == <<"-">>

\* The bare-hyphen rule tried first.
parseSiteName_dashFirst(siteName) ==
  LET parts == split(siteName, Dash)
      spaced == split(siteName, SpacedDash)
  IN IF Len(parts) >= 2
     THEN Some([contractor |-> toUpperCase(trim(parts[1])),
                project |-> trim(join(slice1(parts), Dash))])
     ELSE IF Len(spaced) >= 2
     THEN Some([contractor |-> toUpperCase(trim(spaced[1])),
                project |-> trim(join(slice1(spaced), SpacedDash))])
     ELSE Null

\* The bare-hyphen rule keeps only the part after the first hyphen.
parseSiteName_secondPartOnly(siteName) ==
  LET spaced == split(siteName, SpacedDash)
      parts == split(siteName, Dash)
  IN IF Len(spaced) >= 2
     THEN Some([contractor |-> toUpperCase(trim(spaced[1])),
                project |-> trim(join(slice1(spaced), SpacedDash))])
     ELSE IF Len(parts) >= 2
     THEN Some([contractor |-> toUpperCase(trim(parts[1])),
                project |-> trim(parts[2])])
     ELSE Null

\* Without the fall back to the bare hyphen.
parseSiteName_spacedOnly(siteName) ==
  LET spaced == split(siteName, SpacedDash)
  IN IF Len(spaced) >= 2
     THEN Some([contractor |-> toUpperCase(trim(spaced[1])),
                project |-> trim(join(slice1(spaced), SpacedDash))])
     ELSE Null

parseSiteName(siteName) ==
  LET spaced == split(siteName, SpacedDash)
      parts == split(siteName, Dash)
  IN IF Len(spaced) >= 2
     THEN Some([contractor |-> toUpperCase(trim(spaced[1])),
                project |-> trim(join(slice1(spaced), SpacedDash))])
     ELSE IF Len(parts) >= 2
     THEN Some([contractor |-> toUpperCase(trim(parts[1])),
                project |-> trim(join(slice1(parts), Dash))])
     ELSE Null

PROJECTS_A_M == <<"P", "R", "O", "J", "E", "C", "T", "S", " ", "A", "-", "M">>
PROJECTS_N_Z == <<"P", "R", "O", "J", "E", "C", "T", "S", " ", "N", "-", "Z">>

getProjectsFolder(contractor) ==
  LET firstChar == toUpperCase(charAt0(contractor))
      isNumberOrAtoM ==
        \/ StrLE(<<"0">>, firstChar) /\ StrLE(firstChar, <<"9">>)
        \/ StrLE(<<"A">>, firstChar) /\ StrLE(firstChar, <<"M">>)
  IN IF isNumberOrAtoM THEN PROJECTS_A_M ELSE PROJECTS_N_Z

\* "SWPPP/INSPECTIONS/PROJECTS/"
PathRoot ==
  << "S", "W", "P", "P", "P", "/",
     "I", "N", "S", "P", "E", "C", "T", "I", "O", "N", "S", "/",
     "P", "R", "O", "J", "E", "C", "T", "S", "/" >>

Slash == <<"/">>

\* year ?? new Date().getFullYear(): year is optional, now is the clock's year.
YearFolder(year, now) == IF IsNull(year) THEN now ELSE Val(year)

\* The project segment before the contractor segment.
siteNameToSharePointPath_swapped(siteName, year, now) ==
  LET parsed == parseSiteName(siteName) IN
  IF IsNull(parsed) THEN Null
  ELSE LET contractor == Val(parsed).contractor
           project == Val(parsed).project
           folder == getProjectsFolder(contractor)
       IN Some(PathRoot \o folder \o Slash \o project \o Slash \o contractor
                 \o Slash \o NumberToString(YearFolder(year, now)))

siteNameToSharePointPath(siteName, year, now) ==
  LET parsed == parseSiteName(siteName) IN
  IF IsNull(parsed) THEN Null
  ELSE LET contractor == Val(parsed).contractor
           project == Val(parsed).project
           folder == getProjectsFolder(contractor)
       IN Some(PathRoot \o folder \o Slash \o contractor \o Slash \o project
                 \o Slash \o NumberToString(YearFolder(year, now)))

\* ------------------------------------------------------------------------
\* worker: retry backoff
\* ------------------------------------------------------------------------

MAX_PDF_RETRIES == 5

RECURSIVE Pow2(_)
Pow2(n) == IF n = 0 THEN 1 ELSE 2 * Pow2(n - 1)

\* Math.random() = k / RandomDenominator for k in RandomValues.
RandomDenominator == Pow2(JitterBits)
RandomValues == 0..(RandomDenominator - 1)
\* Math.random() = 1/2: no jitter.
RandomHalf == RandomDenominator \div 2

Min(a, b) == IF a <= b THEN a ELSE b

\* exponentialDelay * 0.2 * (random * 2 - 1), exact for the values above.
Jitter(exponentialDelay, random) ==
  (exponentialDelay * (random - RandomHalf)) \div (5 * RandomHalf)

\* The ceiling applied before the jitter is added.
getBackoffDelay_clampFirst(attemptNumber, isRateLimit, random) ==
  LET baseDelay == IF isRateLimit THEN 10000 ELSE 3000
      maxDelay == 60000
      exponentialDelay == baseDelay * Pow2(attemptNumber - 1)
  IN Min(exponentialDelay, maxDelay) + Jitter(Min(exponentialDelay, maxDelay), random)

getBackoffDelay(attemptNumber, isRateLimit, random) ==
  LET baseDelay == IF isRateLimit THEN 10000 ELSE 3000
      maxDelay == 60000
      exponentialDelay == baseDelay * Pow2(attemptNumber - 1)
      jitter == Jitter(exponentialDelay, random)
  IN Min(exponentialDelay + jitter, maxDelay)

\* ------------------------------------------------------------------------
\* parser: sender check, extraction result, file name
\* ------------------------------------------------------------------------

ALLOWED_SENDERS ==
  << << "c", "h", "i", "@", "d", "e", "s", "e", "r", "t", "s", "e", "r", "v",
        "i", "c", "e", "s", ".", "n", "e", "t" >>,
     << "c", "o", "m", "p", "l", "i", "a", "n", "c", "e", "g", "o", ".", "c",
        "o", "m" >> >>

shouldProcessEmail(from) ==
  LET fromLower == toLowerCase(from) IN
  IF includes(fromLower, ALLOWED_SENDERS[2]) THEN TRUE
  ELSE \E i \in 1..Len(ALLOWED_SENDERS) :
         includes(fromLower, toLowerCase(ALLOWED_SENDERS[i]))

\* String.prototype.padStart(2, "0")
padStart2(s) ==
  IF Len(s) >= 2 THEN s ELSE IF Len(s) = 1 THEN <<"0">> \o s ELSE <<"0", "0">>

\* String.prototype.slice(-2)
sliceLast2(s) == IF Len(s) <= 2 THEN s ELSE SubSeq(s, Len(s) - 1, Len(s))

\* A Date is [year, month (0..11), day]: getFullYear, getMonth, getDate.
formatFilename(date) ==
  LET mm == padStart2(NumberToString(date.month + 1))
      dd == padStart2(NumberToString(date.day))
      yy == sliceLast2(NumberToString(date.year))
  IN mm \o <<".">> \o dd \o <<".">> \o yy \o <<".", "p", "d", "f">>

\* ------------------------------------------------------------------------
\* parser: the patterns of parseComplianceGoEmail
\* ------------------------------------------------------------------------

Digits == {"0", "1", "2", "3", "4", "5", "6", "7", "8", "9"}

\* [A-Za-z]
Letters ==
  {Ascii[i] : i \in (CharCode("A") - 31)..(CharCode("Z") - 31)}
  \cup {Ascii[i] : i \in (CharCode("a") - 31)..(CharCode("z") - 31)}

\* The index of the first occurrence of sub in s at or after i; 0 if none.
IndexOfFrom(s, sub, i) ==
  LET hits == {j \in i..Len(s) : OccursAt(s, sub, j)}
  IN IF hits = {} THEN 0 ELSE CHOOSE j \in hits : \A k \in hits : j <= k

\* The first index at or after i whose character is not in chars;
\* Len(s) + 1 if there is none.
SkipWhile(s, i, chars) ==
  LET stops == {j \in i..Len(s) : s[j] \notin chars}
  IN IF stops = {} THEN (IF i > Len(s) THEN i ELSE Len(s) + 1)
     ELSE CHOOSE j \in stops : \A k \in stops : j <= k

\* The first index at or after i whose character is in chars; Len(s) + 1 if
\* there is none.
SkipUntil(s, i, chars) ==
  LET stops == {j \in i..Len(s) : s[j] \in chars}
  IN IF stops = {} THEN (IF i > Len(s) THEN i ELSE Len(s) + 1)
     ELSE CHOOSE j \in stops : \A k \in stops : j <= k

\* The last index in from..i whose character is not in chars; 0 if none.
LastNotIn(s, from, i, chars) ==
  LET hits == {j \in from..i : s[j] \notin chars}
  IN IF hits = {} THEN 0 ELSE CHOOSE j \in hits : \A k \in hits : j >= k

\* "site/location name:</span>", "<span", "</span>" (matched ignoring case)
SiteNameLabel ==
  << "s", "i", "t", "e", "/", "l", "o", "c", "a", "t", "i", "o", "n", " ",
     "n", "a", "m", "e", ":" >>
SpanEnd == <<"<", "/", "s", "p", "a", "n", ">">>
SpanStart == <<"<", "s", "p", "a", "n">>

\* SITE_NAME_HTML_REGEX tried at index i of s; lower is s in lower case.
\* The group [^<]+ or null.
SiteNameHtmlAt(s, lower, i) ==
  LET afterLabel == i + Len(SiteNameLabel) + Len(SpanEnd)
      open == SkipWhile(s, afterLabel, WhiteSpace)
      close == IndexOfFrom(s, <<">">>, open + Len(SpanStart))
      stop == IndexOfFrom(s, <<"<">>, close + 1)
  IN IF /\ OccursAt(lower, SiteNameLabel \o SpanEnd, i)
        /\ OccursAt(lower, SpanStart, open)
        /\ close # 0
        /\ stop > close + 1
        /\ OccursAt(lower, SpanEnd, stop)
     THEN Some(SubSeq(s, close + 1, stop - 1))
     ELSE Null

\* The match that starts leftmost.
SiteNameHtmlFrom(s, lower, i) ==
  LET hits == {j \in i..Len(s) : ~IsNull(SiteNameHtmlAt(s, lower, j))}
  IN IF hits = {} THEN Null
     ELSE SiteNameHtmlAt(s, lower, CHOOSE j \in hits : \A k \in hits : j <= k)

\* s.match(SITE_NAME_HTML_REGEX)?.[1]
matchSiteNameHtml(s) == SiteNameHtmlFrom(s, toLowerCase(s), 1)

NewLines == {"\n", "\r"}

\* SITE_NAME_TEXT_REGEX tried at index i: \s* takes all the white space it
\* can and gives back what [^\r\n]+ needs to take one character.
SiteNameTextAt(s, lower, i) ==
  LET afterLabel == i + Len(SiteNameLabel)
      first == SkipWhile(s, afterLabel, WhiteSpace)
      start == IF first <= Len(s) THEN first
               ELSE LastNotIn(s, afterLabel, Len(s), NewLines)
  IN IF OccursAt(lower, SiteNameLabel, i) /\ start # 0
     THEN Some(SubSeq(s, start, SkipUntil(s, start, NewLines) - 1))
     ELSE Null

SiteNameTextFrom(s, lower, i) ==
  LET hits == {j \in i..Len(s) : ~IsNull(SiteNameTextAt(s, lower, j))}
  IN IF hits = {} THEN Null
     ELSE SiteNameTextAt(s, lower, CHOOSE j \in hits : \A k \in hits : j <= k)

\* s.match(SITE_NAME_TEXT_REGEX)?.[1]
matchSiteNameText(s) == SiteNameTextFrom(s, toLowerCase(s), 1)

\* 'href="', "https://cdn3.compliancego.com/", ".html" (ignoring case)
Href == <<"h", "r", "e", "f", "=", "\"">>
UrlBase ==
  << "h", "t", "t", "p", "s", ":", "/", "/", "c", "d", "n", "3", ".", "c",
     "o", "m", "p", "l", "i", "a", "n", "c", "e", "g", "o", ".", "c", "o",
     "m", "/" >>
DotHtml == <<".", "h", "t", "m", "l">>

\* REPORT_URL_REGEX tried at index i: [^"]+ runs to the next quote, which
\* ".html" must come right before.
ReportUrlAt(s, lower, i) ==
  LET body == i + Len(Href) + Len(UrlBase)
      quote == IndexOfFrom(s, <<"\"">>, body)
  IN IF /\ OccursAt(lower, Href \o UrlBase, i)
        /\ quote # 0
        /\ quote - body >= Len(DotHtml) + 1
        /\ OccursAt(lower, DotHtml, quote - Len(DotHtml))
     THEN Some(SubSeq(s, i + Len(Href), quote - 1))
     ELSE Null

ReportUrlFrom(s, lower, i) ==
  LET hits == {j \in i..Len(s) : ~IsNull(ReportUrlAt(s, lower, j))}
  IN IF hits = {} THEN Null
     ELSE ReportUrlAt(s, lower, CHOOSE j \in hits : \A k \in hits : j <= k)

\* s.match(REPORT_URL_REGEX)?.[1]
matchReportUrl(s) == ReportUrlFrom(s, toLowerCase(s), 1)

\* \d{n}[A-Za-z]{3}\d{2}- at index i, for n = 1 or 2 day digits.
DateTokenAt(s, i, n) ==
  /\ i + n + 5 <= Len(s)
  /\ \A k \in i..(i + n - 1) : s[k] \in Digits
  /\ \A k \in (i + n)..(i + n + 2) : s[k] \in Letters
  /\ \A k \in (i + n + 3)..(i + n + 4) : s[k] \in Digits
  /\ s[i + n + 5] = "-"

\* The groups of the token of n day digits at index i.
DateGroups(s, i, n) ==
  <<SubSeq(s, i, i + n - 1), SubSeq(s, i + n, i + n + 2),
    SubSeq(s, i + n + 3, i + n + 4)>>

\* s.match(DATE_FROM_URL_REGEX): the match that starts leftmost, two day
\* digits tried before one; its three groups, or null.
matchDateFrom(s, i) ==
  LET hits == {j \in i..Len(s) : DateTokenAt(s, j, 2) \/ DateTokenAt(s, j, 1)}
      first == CHOOSE j \in hits : \A k \in hits : j <= k
  IN IF hits = {} THEN Null
     ELSE IF DateTokenAt(s, first, 2) THEN Some(DateGroups(s, first, 2))
     ELSE Some(DateGroups(s, first, 1))

\* Number.parseInt(digits, 10) of a string of decimal digits.
RECURSIVE parseInt(_)
parseInt(digits) ==
  IF digits = <<>> THEN 0
  ELSE 10 * parseInt(SubSeq(digits, 1, Len(digits) - 1))
         + (CharCode(digits[Len(digits)]) - CharCode("0"))

\* The keys of monthMap in the order of their values 0..11.
MonthNames ==
  << <<"J", "a", "n">>, <<"F", "e", "b">>, <<"M", "a", "r">>,
     <<"A", "p", "r">>, <<"M", "a", "y">>, <<"J", "u", "n">>,
     <<"J", "u", "l">>, <<"A", "u", "g">>, <<"S", "e", "p">>,
     <<"O", "c", "t">>, <<"N", "o", "v">>, <<"D", "e", "c">> >>

\* monthMap[monthStr] ?? 0
monthIndex(monthStr) ==
  IF \E m \in 1..Len(MonthNames) : MonthNames[m] = monthStr
  THEN (CHOOSE m \in 1..Len(MonthNames) : MonthNames[m] = monthStr) - 1
  ELSE 0

\* ------------------------------------------------------------------------
\* Date: [year, month (0..11), day, hours], local time
\* ------------------------------------------------------------------------

isLeapYear(year) ==
  (year % 4 = 0 /\ year % 100 # 0) \/ year % 400 = 0

daysInMonth(year, month) ==
  IF month = 1 THEN (IF isLeapYear(year) THEN 29 ELSE 28)
  ELSE IF month \in {3, 5, 8, 10} THEN 30 ELSE 31

\* new Date(year, month, day, hours, 0, 0) for a month in 0..11 and a day
\* >= 0: a day outside the month rolls over into the months around it.
RECURSIVE newDate(_, _, _, _)
newDate(year, month, day, hours) ==
  IF day = 0
  THEN IF month = 0 THEN newDate(year - 1, 11, 31, hours)
       ELSE newDate(year, month - 1, daysInMonth(year, month - 1), hours)
  ELSE IF day > daysInMonth(year, month)
  THEN IF month = 11
       THEN newDate(year + 1, 0, day - daysInMonth(year, month), hours)
       ELSE newDate(year, month + 1, day - daysInMonth(year, month), hours)
  ELSE [year |-> year, month |-> month, day |-> day, hours |-> hours]

\* ------------------------------------------------------------------------
\* parser: parseComplianceGoEmail
\* ------------------------------------------------------------------------

\* match?.[1]?.trim(): null stays null.
trimmedGroup(group) == IF IsNull(group) THEN Null ELSE Some(trim(Val(group)))

\* !value for an optional string: undefined or "".
Falsy(value) == IsNull(value) \/ Val(value) = <<>>

\* The date of the report URL: from its date token, or the clock's now.
inspectionDateOf(reportUrl, now) ==
  LET dateMatch == matchDateFrom(reportUrl, 1) IN
  IF IsNull(dateMatch) THEN now
  ELSE newDate(2000 + parseInt(Val(dateMatch)[3]),
               monthIndex(Val(dateMatch)[2]),
               parseInt(Val(dateMatch)[1]), 12)

\* The report URL is searched in content, not in allContent.
parseComplianceGoEmail_urlInContent(html, text, now) ==
  LET content == IF html # <<>> THEN html
                 ELSE IF ~Falsy(text) THEN Val(text) ELSE <<>>
      allContent == html \o <<"\n">> \o (IF IsNull(text) THEN <<>> ELSE Val(text))
      fromHtml == trimmedGroup(matchSiteNameHtml(content))
      siteName == IF Falsy(fromHtml)
                  THEN trimmedGroup(matchSiteNameText(allContent))
                  ELSE fromHtml
      reportUrl == matchReportUrl(content)
  IN IF Falsy(siteName) THEN Null
     ELSE IF Falsy(reportUrl) THEN Null
     ELSE Some([siteName |-> Val(siteName), reportUrl |-> Val(reportUrl),
                inspectionDate |-> inspectionDateOf(Val(reportUrl), now)])

\* The month is read as 1..12, not looked up as 0..11.
parseComplianceGoEmail_monthOneBased(html, text, now) ==
  LET content == IF html # <<>> THEN html
                 ELSE IF ~Falsy(text) THEN Val(text) ELSE <<>>
      allContent == html \o <<"\n">> \o (IF IsNull(text) THEN <<>> ELSE Val(text))
      fromHtml == trimmedGroup(matchSiteNameHtml(content))
      siteName == IF Falsy(fromHtml)
                  THEN trimmedGroup(matchSiteNameText(allContent))
                  ELSE fromHtml
      reportUrl == matchReportUrl(allContent)
      dateMatch == matchDateFrom(Val(reportUrl), 1)
  IN IF Falsy(siteName) THEN Null
     ELSE IF Falsy(reportUrl) THEN Null
     ELSE Some([siteName |-> Val(siteName), reportUrl |-> Val(reportUrl),
                inspectionDate |->
                  IF IsNull(dateMatch) THEN now
                  ELSE newDate(2000 + parseInt(Val(dateMatch)[3]),
                               (monthIndex(Val(dateMatch)[2]) + 1) % 12,
                               parseInt(Val(dateMatch)[1]), 12)])

\* html and text are the decoded parts (text is optional), now is the
\* clock's new Date(). The site address is extracted too and read by nobody.
parseComplianceGoEmail(html, text, now) ==
  LET content == IF html # <<>> THEN html
                 ELSE IF ~Falsy(text) THEN Val(text) ELSE <<>>
      allContent == html \o <<"\n">> \o (IF IsNull(text) THEN <<>> ELSE Val(text))
      fromHtml == trimmedGroup(matchSiteNameHtml(content))
      siteName == IF Falsy(fromHtml)
                  THEN trimmedGroup(matchSiteNameText(allContent))
                  ELSE fromHtml
      reportUrl == matchReportUrl(allContent)
  IN IF Falsy(siteName) THEN Null
     ELSE IF Falsy(reportUrl) THEN Null
     ELSE Some([siteName |-> Val(siteName), reportUrl |-> Val(reportUrl),
                inspectionDate |-> inspectionDateOf(Val(reportUrl), now)])

\* ------------------------------------------------------------------------
\* worker: errors and messages
\* ------------------------------------------------------------------------

\* An error is [name, message]; String(error) is "<name>: <message>".
Err(name, message) == [name |-> name, message |-> message]
ErrorToString(error) == error.name \o <<":", " ">> \o error.message

ErrorName == <<"E", "r", "r", "o", "r">>
TimeoutErrorName ==
  <<"T", "i", "m", "e", "o", "u", "t", "E", "r", "r", "o", "r">>
TypeErrorName == <<"T", "y", "p", "e", "E", "r", "r", "o", "r">>

isRateLimitError(error) ==
  LET msg == toLowerCase(error.message) IN
    \/ includes(msg, <<"4", "2", "9">>)
    \/ includes(msg, <<"5", "0", "3">>)
    \/ includes(msg, <<"r", "a", "t", "e", " ", "l", "i", "m", "i", "t">>)
    \/ includes(msg, << "n", "o", " ", "b", "r", "o", "w", "s", "e", "r", " ",
                        "a", "v", "a", "i", "l", "a", "b", "l", "e" >>)

\* What a render attempt can fail with: a rate-limit or availability
\* answer, a rate-limit message, an exhausted browser pool (capitalised: the
\* check lower-cases), a navigation timeout.
RenderErrors ==
  { Err(ErrorName, <<"H", "T", "T", "P", " ", "4", "2", "9">>),
    Err(ErrorName, <<"H", "T", "T", "P", " ", "5", "0", "3">>),
    Err(ErrorName, << "R", "a", "t", "e", " ", "l", "i", "m", "i", "t", " ",
                      "h", "i", "t" >>),
    Err(ErrorName, << "N", "o", " ", "B", "r", "o", "w", "s", "e", "r", " ",
                      "A", "v", "a", "i", "l", "a", "b", "l", "e" >>),
    Err(TimeoutErrorName, << "N", "a", "v", "i", "g", "a", "t", "i", "o", "n",
                             " ", "t", "i", "m", "e", "o", "u", "t" >>) }

\* A fetch or a body read that rejects.
NetworkError ==
  Err(TypeErrorName,
      <<"f", "e", "t", "c", "h", " ", "f", "a", "i", "l", "e", "d">>)

\* The HTTP statuses of a response that is not ok.
FailStatuses == {401, 503}

UnroutableReason ==
  << "C", "o", "u", "l", "d", " ", "n", "o", "t", " ", "d", "e", "t", "e",
     "r", "m", "i", "n", "e", " ", "S", "h", "a", "r", "e", "P", "o", "i",
     "n", "t", " ", "f", "o", "l", "d", "e", "r", " ", "p", "a", "t", "h" >>

TokenFailed(httpStatus) ==
  Err(ErrorName,
      << "T", "o", "k", "e", "n", " ", "r", "e", "q", "u", "e", "s", "t", " ",
         "f", "a", "i", "l", "e", "d", ":", " " >> \o NumberToString(httpStatus))

DrivesFailed(httpStatus) ==
  << "F", "a", "i", "l", "e", "d", " ", "t", "o", " ", "g", "e", "t", " ",
     "d", "r", "i", "v", "e", "s", ":", " " >> \o NumberToString(httpStatus)

NoDocumentsDrive ==
  << "C", "o", "u", "l", "d", " ", "n", "o", "t", " ", "f", "i", "n", "d",
     " ", "D", "o", "c", "u", "m", "e", "n", "t", "s", " ", "d", "r", "i",
     "v", "e" >>

UploadFailed(httpStatus, errorText) ==
  << "U", "p", "l", "o", "a", "d", " ", "f", "a", "i", "l", "e", "d", ":", " " >>
    \o NumberToString(httpStatus) \o <<" ", "-", " ">> \o errorText

NotApplicable == <<"N", "/", "A">>
UNKNOWN == <<"U", "N", "K", "N", "O", "W", "N">>

\* The store's URL of an uploaded item: the drive's base and the item's path.
StoreBase == <<"h", "t", "t", "p", "s", ":", "/", "/", "s", "p", "/">>

\* String.prototype.lastIndexOf("/") as a 1-based index; 0 when there is none.
RECURSIVE lastIndexOfSlash(_, _)
lastIndexOfSlash(s, i) ==
  IF i = 0 THEN 0 ELSE IF s[i] = "/" THEN i ELSE lastIndexOfSlash(s, i - 1)

\* webUrl.substring(0, webUrl.lastIndexOf("/"))
FolderUrl(webUrl) ==
  SubSeq(webUrl, 1, lastIndexOfSlash(webUrl, Len(webUrl)) - 1)

\* ------------------------------------------------------------------------
\* worker: inbound e-mails
\* ------------------------------------------------------------------------

SenderSupport ==
  << "s", "u", "p", "p", "o", "r", "t", "@", "c", "o", "m", "p", "l", "i",
     "a", "n", "c", "e", "g", "o", ".", "c", "o", "m" >>
SenderChi ==
  << "C", "h", "i", "@", "D", "e", "s", "e", "r", "t", "S", "e", "r", "v",
     "i", "c", "e", "s", ".", "n", "e", "t" >>
SenderOther ==
  << "b", "o", "b", "@", "e", "x", "a", "m", "p", "l", "e", ".", "c", "o", "m" >>

SiteArco ==
  << "A", "R", "C", "O", " ", "-", " ", "K", "T", "E", "C", " ", "P", "H", "X" >>
SiteSundt == << "S", "u", "n", "d", "t", "-", "M", "e", "s", "a" >>
SiteInvalid ==
  << "I", "n", "v", "a", "l", "i", "d", "S", "i", "t", "e", "N", "a", "m", "e" >>

ReportUrl ==
  << "h", "t", "t", "p", "s", ":", "/", "/", "c", "d", "n", "3", ".", "c",
     "o", "m", "p", "l", "i", "a", "n", "c", "e", "g", "o", ".", "c", "o",
     "m", "/", "I", "R", "_", "2", "1", "J", "a", "n", "2", "6", "-", "1",
     ".", "h", "t", "m", "l" >>

Jan21 == [year |-> 2026, month |-> 0, day |-> 21, hours |-> 12]

\* The clock when the worker's e-mail is handled.
WorkerClock == [year |-> 2026, month |-> 0, day |-> 22, hours |-> 9]

\* The site-name field as the report's HTML has it.
SiteNameHtml(value) ==
  << "S", "i", "t", "e", "/", "L", "o", "c", "a", "t", "i", "o", "n", " ",
     "N", "a", "m", "e", ":", "<", "/", "s", "p", "a", "n", ">", " ", "<",
     "s", "p", "a", "n", ">" >>
    \o value \o SpanEnd

\* The site-name field as a line of plain text.
SiteNameLine(value) ==
  << "S", "i", "t", "e", "/", "L", "o", "c", "a", "t", "i", "o", "n", " ",
     "N", "a", "m", "e", ":", " " >>
    \o value \o <<"\n">>

\* The link to the report.
ReportLink(url) == <<"<", "a", " ">> \o Href \o url \o <<"\"", ">">>

\* A sender that is not allowed; allowed senders with a routable site name
\* (in HTML, and forwarded as plain text with a bare separator), an
\* unroutable one, no site name, no URL.
Emails ==
  { [from |-> SenderOther,
     html |-> SiteNameHtml(SiteArco) \o ReportLink(ReportUrl), text |-> Null],
    [from |-> SenderSupport,
     html |-> SiteNameHtml(SiteArco) \o ReportLink(ReportUrl), text |-> Null],
    [from |-> SenderChi, html |-> <<>>,
     text |-> Some(SiteNameLine(SiteSundt) \o Href \o ReportUrl \o <<"\"">>)],
    [from |-> SenderChi,
     html |-> SiteNameHtml(SiteInvalid) \o ReportLink(ReportUrl),
     text |-> Null],
    [from |-> SenderSupport, html |-> ReportLink(ReportUrl), text |-> Null],
    [from |-> SenderSupport, html |-> SiteNameHtml(SiteArco), text |-> Null] }

\* The file names the destination folder may hold before the run.
Listings == {{}, {formatFilename(Jan21)}}

\* ------------------------------------------------------------------------
\* worker: state
\* ------------------------------------------------------------------------

envVars == <<email, listing, script>>
handlerVars == <<hpc, forwards>>
pdfVars ==
  <<attempt, lastError, rejected, browser, pdf, delay, launches, failures,
    waits, waitsElapsed>>
uploadVars == <<status, puts, stored>>
workerVars ==
  <<envVars, handlerVars, ppc, run, stages, notifications, pdfVars,
    uploadVars, delivered>>

vars == <<call, workerVars>>

\* No pure call is under check.
Idle == [fn |-> "none", arg |-> <<>>, done |-> TRUE, ret |-> <<>>]

NoEmail == [from |-> <<>>, html |-> <<>>, text |-> Null]

NoRun ==
  [siteName |-> <<>>, reportUrl |-> <<>>, folderPath |-> Null,
   fileName |-> <<>>, contractor |-> <<>>, project |-> <<>>]

\* Nothing has arrived: the handler has not started, no run exists.
WorkerAtRest ==
  /\ hpc = "start" /\ forwards = 0
  /\ ppc = "idle" /\ run = NoRun /\ stages = <<>> /\ notifications = <<>>
  /\ attempt = 0 /\ lastError = Null /\ browser = FALSE /\ pdf = FALSE
  /\ rejected = Null
  /\ delay = 0 /\ launches = 0 /\ failures = 0 /\ waits = 0
  /\ waitsElapsed = 0
  /\ status = 0 /\ puts = 0 /\ stored = {}
  /\ delivered = 0

\* ------------------------------------------------------------------------
\* worker: sendNotification and the outcomes of processInspection
\* ------------------------------------------------------------------------

\* NotificationData; error and sharePointUrl are optional.
NotificationData(locals, success, folderPath, error, sharePointUrl) ==
  [success |-> success, siteName |-> locals.siteName,
   contractor |-> locals.contractor, project |-> locals.project,
   fileName |-> locals.fileName, folderPath |-> folderPath,
   error |-> error, sharePointUrl |-> sharePointUrl]

\* sendNotification up to its await of env.SEND_EMAIL.send.
sendNotification(data) ==
  /\ notifications' = Append(notifications, data)
  /\ ppc' = "send"

\* The folderPath is null: notify the failure and return.
OnUnroutable_fallThrough(locals) ==
  /\ stages' = <<"PENDING", "RENDERING">>
  /\ notifications' = <<NotificationData(locals, FALSE, NotApplicable,
                                         Some(UnroutableReason), Null)>>
  /\ attempt' = 1 /\ lastError' = Null /\ browser' = FALSE /\ pdf' = FALSE
  /\ rejected' = Null
  /\ launches' = launches + 1
  /\ ppc' = "launch"
  /\ UNCHANGED <<delay, failures, waits, waitsElapsed, uploadVars>>

OnUnroutable(locals) ==
  /\ stages' = <<"PENDING", "FAILED">>
  /\ sendNotification(NotificationData(locals, FALSE, NotApplicable,
                                       Some(UnroutableReason), Null))
  /\ UNCHANGED <<pdfVars, uploadVars>>

\* The existing file short-circuits the run: nothing rendered, nothing put.
OnRoutable_skipExisting(locals) ==
  IF locals.fileName \in listing
  THEN /\ stages' = <<"PENDING", "PATH_RESOLVED", "EXISTS_CHECKED">>
       /\ sendNotification(NotificationData(locals, TRUE,
                                            Val(locals.folderPath), Null, Null))
       /\ UNCHANGED <<pdfVars, uploadVars>>
  ELSE /\ stages' = <<"PENDING", "PATH_RESOLVED", "RENDERING">>
       /\ notifications' = notifications
       /\ attempt' = 1 /\ lastError' = Null /\ browser' = FALSE /\ pdf' = FALSE
       /\ rejected' = Null
       /\ launches' = launches + 1
       /\ ppc' = "launch"
       /\ UNCHANGED <<delay, failures, waits, waitsElapsed, uploadVars>>

\* The folderPath is set: enter the try block and generatePdf, which runs
\* up to its first await, puppeteer.launch of attempt 1.
OnRoutable(locals) ==
  /\ stages' = <<"PENDING", "PATH_RESOLVED", "RENDERING">>
  /\ notifications' = notifications
  /\ attempt' = 1 /\ lastError' = Null /\ browser' = FALSE /\ pdf' = FALSE
  /\ rejected' = Null
  /\ launches' = launches + 1
  /\ ppc' = "launch"
  /\ UNCHANGED <<delay, failures, waits, waitsElapsed, uploadVars>>

\* processInspection from its call to its first await.
processInspection(inspection) ==
  LET year == inspection.inspectionDate.year
      folderPath == siteNameToSharePointPath(inspection.siteName, Some(year),
                                             year)
      fileName == formatFilename(inspection.inspectionDate)
      parsed == parseSiteName(inspection.siteName)
      contractor == IF IsNull(parsed) THEN UNKNOWN ELSE Val(parsed).contractor
      project == IF IsNull(parsed) THEN UNKNOWN ELSE Val(parsed).project
      locals == [siteName |-> inspection.siteName,
                 reportUrl |-> inspection.reportUrl,
                 folderPath |-> folderPath, fileName |-> fileName,
                 contractor |-> contractor, project |-> project]
  IN /\ ppc = "idle"
     /\ run' = locals
     /\ IF IsNull(folderPath) THEN OnUnroutable(locals) ELSE OnRoutable(locals)

\* The catch block of processInspection.
OnProcessingError(error) ==
  /\ stages' = Append(stages, "FAILED")
  /\ sendNotification(NotificationData(run, FALSE, Val(run.folderPath),
                                       Some(ErrorToString(error)), Null))

\* uploadToSharePoint has returned result = [success, webUrl, error].
OnUploadResult_silentFailure(result) ==
  IF result.success
  THEN /\ stages' = Append(stages, "UPLOADED")
       /\ sendNotification(NotificationData(run, TRUE, Val(run.folderPath),
                                            Null, result.webUrl))
  ELSE /\ stages' = Append(stages, "FAILED")
       /\ notifications' = notifications
       /\ ppc' = "done"

\* Every result of the upload is notified as a success.
OnUploadResult_alwaysSuccess(result) ==
  /\ stages' = Append(stages, IF result.success THEN "UPLOADED" ELSE "FAILED")
  /\ sendNotification(NotificationData(run, TRUE, Val(run.folderPath),
                                       Null, result.webUrl))

OnUploadResult(result) ==
  IF result.success
  THEN /\ stages' = Append(stages, "UPLOADED")
       /\ sendNotification(NotificationData(run, TRUE, Val(run.folderPath),
                                            Null, result.webUrl))
  ELSE /\ stages' = Append(stages, "FAILED")
       /\ sendNotification(NotificationData(run, FALSE, Val(run.folderPath),
                                            result.error, Null))

\* The upload starts over from the token request after an exception.
OnUploadError_retry(error) ==
  /\ ppc' = "token"
  /\ UNCHANGED <<stages, notifications>>

\* The catch block of uploadToSharePoint.
OnUploadError(error) ==
  OnUploadResult([success |-> FALSE, webUrl |-> Null,
                  error |-> Some(ErrorToString(error))])

\* env.SEND_EMAIL.send settles; a rejection is caught and logged.
SendResolves ==
  /\ ppc = "send"
  /\ ppc' = "done"
  /\ delivered' = delivered + 1
  /\ UNCHANGED <<call, envVars, handlerVars, run, stages, notifications,
                 pdfVars, uploadVars>>

\* The rejection escapes into the catch block of processInspection, which
\* notifies the failure.
SendRejects_escalated ==
  /\ ppc = "send"
  /\ Len(notifications) = 1
  /\ stages' = Append(stages, "FAILED")
  /\ sendNotification([notifications[1] EXCEPT
                         !.success = FALSE,
                         !.error = Some(ErrorToString(NetworkError))])
  /\ UNCHANGED <<call, delivered, envVars, handlerVars, run, pdfVars,
                 uploadVars>>

SendRejects ==
  /\ ppc = "send"
  /\ ppc' = "done"
  /\ UNCHANGED <<call, delivered, envVars, handlerVars, run, stages, notifications,
                 pdfVars, uploadVars>>

\* ------------------------------------------------------------------------
\* worker: generatePdf
\* ------------------------------------------------------------------------

\* "PDF generation failed after retries"
RetriesExhausted ==
  Err(ErrorName,
      << "P", "D", "F", " ", "g", "e", "n", "e", "r", "a", "t", "i", "o", "n",
         " ", "f", "a", "i", "l", "e", "d", " ", "a", "f", "t", "e", "r", " ",
         "r", "e", "t", "r", "i", "e", "s" >>)

\* generatePdf has returned the PDF: processInspection goes on to
\* uploadToSharePoint, which runs up to the fetch of getGraphToken.
OnRendered ==
  /\ stages' = stages \o <<"RENDERED", "UPLOADING">>
  /\ notifications' = notifications
  /\ ppc' = "token"

\* The loop ends without the throw: the caller goes on without a PDF.
AfterFinally_noThrow(returning) ==
  IF returning
  THEN /\ attempt' = attempt /\ launches' = launches
       /\ OnRendered
  ELSE IF attempt + 1 <= MAX_PDF_RETRIES
  THEN /\ attempt' = attempt + 1
       /\ launches' = launches + 1
       /\ ppc' = "launch"
       /\ UNCHANGED <<stages, notifications>>
  ELSE /\ attempt' = attempt + 1 /\ launches' = launches
       /\ OnRendered

\* After the finally block: the return of the try block completes, or the
\* loop goes on to the next attempt, or it has ended and lastError is thrown.
AfterFinally(returning) ==
  IF returning
  THEN /\ attempt' = attempt /\ launches' = launches
       /\ OnRendered
  ELSE IF attempt + 1 <= MAX_PDF_RETRIES
  THEN /\ attempt' = attempt + 1
       /\ launches' = launches + 1
       /\ ppc' = "launch"
       /\ UNCHANGED <<stages, notifications>>
  ELSE /\ attempt' = attempt + 1 /\ launches' = launches
       /\ OnProcessingError(IF IsNull(lastError') THEN RetriesExhausted
                            ELSE Val(lastError'))

\* The finally block without the close: the session stays open.
Finally_noClose(returning) == AfterFinally(returning)

\* The finally block: close the browser if there is one.
Finally(returning) ==
  IF browser
  THEN /\ ppc' = "close"
       /\ UNCHANGED <<attempt, launches, stages, notifications>>
  ELSE AfterFinally(returning)

\* The catch block without its wait.
Catch_noWait(error) ==
  /\ lastError' = Some(error)
  /\ failures' = failures + 1
  /\ UNCHANGED <<delay, waits>>
  /\ Finally(FALSE)

\* The catch block keeps the error of the first failed attempt.
Catch_keepFirstError(error) ==
  /\ lastError' = IF IsNull(lastError) THEN Some(error) ELSE lastError
  /\ failures' = failures + 1
  /\ IF attempt < MAX_PDF_RETRIES
     THEN /\ \E random \in RandomValues :
               delay' = getBackoffDelay(attempt, isRateLimitError(error),
                                        random)
          /\ waits' = waits + 1
          /\ ppc' = "backoff"
          /\ UNCHANGED <<attempt, launches, stages, notifications>>
     ELSE /\ UNCHANGED <<delay, waits>>
          /\ Finally(FALSE)

\* The wait is classified by the error of the attempt before, if any.
Catch_classifyPrevious(error) ==
  /\ lastError' = Some(error)
  /\ failures' = failures + 1
  /\ IF attempt < MAX_PDF_RETRIES
     THEN /\ \E random \in RandomValues :
               delay' = getBackoffDelay(attempt,
                                        isRateLimitError(IF IsNull(lastError)
                                                         THEN error
                                                         ELSE Val(lastError)),
                                        random)
          /\ waits' = waits + 1
          /\ ppc' = "backoff"
          /\ UNCHANGED <<attempt, launches, stages, notifications>>
     ELSE /\ UNCHANGED <<delay, waits>>
          /\ Finally(FALSE)

\* The catch block: record the error and, while attempts remain, wait.
Catch(error) ==
  /\ lastError' = Some(error)
  /\ failures' = failures + 1
  /\ IF attempt < MAX_PDF_RETRIES
     THEN /\ \E random \in RandomValues :
               delay' = getBackoffDelay(attempt, isRateLimitError(error),
                                        random)
          /\ waits' = waits + 1
          /\ ppc' = "backoff"
          /\ UNCHANGED <<attempt, launches, stages, notifications>>
     ELSE /\ UNCHANGED <<delay, waits>>
          /\ Finally(FALSE)

\* What every step of generatePdf leaves alone.
pdfFrame == <<call, envVars, handlerVars, run, uploadVars, delivered>>

LaunchResolves ==
  /\ ppc = "launch"
  /\ browser' = TRUE
  /\ ppc' = "newPage"
  /\ UNCHANGED <<pdfFrame, stages, notifications, attempt, lastError,
                 rejected, pdf, delay, launches, failures, waits,
                 waitsElapsed>>

LaunchRejects ==
  /\ ppc = "launch"
  /\ \E error \in RenderErrors : rejected' = Some(error) /\ Catch(error)
  /\ UNCHANGED <<pdfFrame, browser, pdf, waitsElapsed>>

NewPageResolves ==
  /\ ppc = "newPage"
  /\ ppc' = "goto"
  /\ UNCHANGED <<pdfFrame, stages, notifications, pdfVars>>

NewPageRejects ==
  /\ ppc = "newPage"
  /\ \E error \in RenderErrors : rejected' = Some(error) /\ Catch(error)
  /\ UNCHANGED <<pdfFrame, browser, pdf, waitsElapsed>>

GotoResolves ==
  /\ ppc = "goto"
  /\ ppc' = "settle"
  /\ UNCHANGED <<pdfFrame, stages, notifications, pdfVars>>

GotoRejects ==
  /\ ppc = "goto"
  /\ \E error \in RenderErrors : rejected' = Some(error) /\ Catch(error)
  /\ UNCHANGED <<pdfFrame, browser, pdf, waitsElapsed>>

\* The one-second timer after the navigation.
SettleElapses ==
  /\ ppc = "settle"
  /\ ppc' = "pdf"
  /\ UNCHANGED <<pdfFrame, stages, notifications, pdfVars>>

\* page.pdf resolves: return pdf, through the finally block.
PdfResolves ==
  /\ ppc = "pdf"
  /\ pdf' = TRUE
  /\ Finally(TRUE)
  /\ UNCHANGED <<pdfFrame, lastError, rejected, browser, delay, failures,
                 waits, waitsElapsed>>

PdfRejects ==
  /\ ppc = "pdf"
  /\ \E error \in RenderErrors : rejected' = Some(error) /\ Catch(error)
  /\ UNCHANGED <<pdfFrame, browser, pdf, waitsElapsed>>

\* The backoff timer of the catch block elapses: on to the finally block.
BackoffElapses ==
  /\ ppc = "backoff"
  /\ waitsElapsed' = waitsElapsed + 1
  /\ UNCHANGED <<lastError, rejected>>
  /\ Finally(FALSE)
  /\ UNCHANGED <<pdfFrame, browser, pdf, delay, failures, waits>>

\* browser.close() settles; a rejection is ignored.
CloseSettles ==
  /\ ppc = "close"
  /\ browser' = FALSE
  /\ UNCHANGED <<lastError, rejected>>
  /\ AfterFinally(pdf)
  /\ UNCHANGED <<pdfFrame, pdf, delay, failures, waits, waitsElapsed>>

\* ------------------------------------------------------------------------
\* worker: uploadToSharePoint and getGraphToken
\* ------------------------------------------------------------------------

\* What every step of uploadToSharePoint leaves alone.
uploadFrame == <<call, envVars, handlerVars, run, pdfVars, delivered>>

\* The token fetch resolves: not ok throws, ok goes on to res.json().
TokenResponds ==
  /\ ppc = "token"
  /\ \/ /\ ppc' = "tokenJson"
        /\ UNCHANGED <<stages, notifications>>
     \/ \E s \in FailStatuses : OnUploadError(TokenFailed(s))
  /\ UNCHANGED <<uploadFrame, uploadVars>>

TokenRejects ==
  /\ ppc = "token"
  /\ OnUploadError(NetworkError)
  /\ UNCHANGED <<uploadFrame, uploadVars>>

\* The token body is read: the fetch of the drives is sent.
TokenJsonResolves ==
  /\ ppc = "tokenJson"
  /\ ppc' = "drives"
  /\ UNCHANGED <<uploadFrame, uploadVars, stages, notifications>>

TokenJsonRejects ==
  /\ ppc = "tokenJson"
  /\ OnUploadError(NetworkError)
  /\ UNCHANGED <<uploadFrame, uploadVars>>

DrivesResponds ==
  /\ ppc = "drives"
  /\ \/ /\ ppc' = "drivesJson"
        /\ UNCHANGED <<stages, notifications>>
     \/ \E s \in FailStatuses :
          OnUploadResult([success |-> FALSE, webUrl |-> Null,
                          error |-> Some(DrivesFailed(s))])
  /\ UNCHANGED <<uploadFrame, uploadVars>>

DrivesRejects ==
  /\ ppc = "drives"
  /\ OnUploadError(NetworkError)
  /\ UNCHANGED <<uploadFrame, uploadVars>>

\* The drives are read: with a Documents drive the PUT is sent.
DrivesJsonResolves ==
  /\ ppc = "drivesJson"
  /\ \/ /\ puts' = puts + 1
        /\ ppc' = "put"
        /\ UNCHANGED <<stages, notifications>>
     \/ /\ OnUploadResult([success |-> FALSE, webUrl |-> Null,
                           error |-> Some(NoDocumentsDrive)])
        /\ UNCHANGED puts
  /\ UNCHANGED <<uploadFrame, status, stored>>

DrivesJsonRejects ==
  /\ ppc = "drivesJson"
  /\ OnUploadError(NetworkError)
  /\ UNCHANGED <<uploadFrame, uploadVars>>

\* `${folderPath}/${fileName}`
uploadPath == Val(run.folderPath) \o Slash \o run.fileName

\* The PUT resolves: ok, the store holds the file; not ok, read the text.
PutResponds ==
  /\ ppc = "put"
  /\ \/ /\ stored' = stored \cup {uploadPath}
        /\ ppc' = "putJson"
        /\ UNCHANGED status
     \/ /\ \E s \in FailStatuses : status' = s
        /\ ppc' = "putText"
        /\ UNCHANGED stored
  /\ UNCHANGED <<uploadFrame, puts, stages, notifications>>

PutRejects ==
  /\ ppc = "put"
  /\ OnUploadError(NetworkError)
  /\ UNCHANGED <<uploadFrame, uploadVars>>

\* The text of a response that is not ok.
ErrorBody == <<"d", "e", "n", "i", "e", "d">>

PutTextResolves ==
  /\ ppc = "putText"
  /\ OnUploadResult([success |-> FALSE, webUrl |-> Null,
                     error |-> Some(UploadFailed(status, ErrorBody))])
  /\ UNCHANGED <<uploadFrame, uploadVars>>

PutTextRejects ==
  /\ ppc = "putText"
  /\ OnUploadError(NetworkError)
  /\ UNCHANGED <<uploadFrame, uploadVars>>

\* The item is read: success, with the URL of its folder.
PutJsonResolves ==
  /\ ppc = "putJson"
  /\ OnUploadResult([success |-> TRUE,
                     webUrl |-> Some(FolderUrl(StoreBase \o uploadPath)),
                     error |-> Null])
  /\ UNCHANGED <<uploadFrame, uploadVars>>

\* The body does not parse, or holds no webUrl string.
PutJsonRejects ==
  /\ ppc = "putJson"
  /\ OnUploadError(NetworkError)
  /\ UNCHANGED <<uploadFrame, uploadVars>>

\* ------------------------------------------------------------------------
\* worker: the email handler
\* ------------------------------------------------------------------------

\* What every step of the handler leaves alone unless it starts a run.
runVars == <<ppc, run, stages, notifications, pdfVars, uploadVars>>

\* message.forward is called in the try block.
Forward ==
  /\ forwards' = forwards + 1
  /\ hpc' = "forward"

\* The sender is not allowed: return without the forward.
OnSenderNotAllowed_noForward ==
  /\ forwards' = forwards
  /\ hpc' = "returned"
  /\ UNCHANGED runVars

\* The sender is not allowed: forward and return.
OnSenderNotAllowed ==
  /\ Forward
  /\ UNCHANGED runVars

\* The catch block: log, then try the forward again.
HandlerCatch ==
  /\ forwards' = forwards + 1
  /\ hpc' = "catchForward"
  /\ UNCHANGED runVars

\* The sender is not checked: every message is read and decoded.
HandlerStart_noSenderGate ==
  /\ hpc = "start"
  /\ hpc' = "read" /\ UNCHANGED <<forwards, runVars>>
  /\ UNCHANGED <<call, envVars, delivered>>

\* The handler up to its first await.
HandlerStart ==
  /\ hpc = "start"
  /\ IF ~shouldProcessEmail(email.from)
     THEN OnSenderNotAllowed
     ELSE hpc' = "read" /\ UNCHANGED <<forwards, runVars>>
  /\ UNCHANGED <<call, envVars, delivered>>

\* streamToArrayBuffer has read message.raw to its end.
ReadResolves ==
  /\ hpc = "read"
  /\ hpc' = "decode"
  /\ UNCHANGED <<call, envVars, forwards, runVars, delivered>>

ReadRejects ==
  /\ hpc = "read"
  /\ HandlerCatch
  /\ UNCHANGED <<call, envVars, delivered>>

\* The run is awaited before the forward is called.
DecodeResolves_awaitPipeline ==
  /\ hpc = "decode"
  /\ LET inspection == parseComplianceGoEmail(email.html, email.text,
                                             WorkerClock) IN
       IF IsNull(inspection)
       THEN Forward /\ UNCHANGED runVars
       ELSE /\ processInspection(Val(inspection))
            /\ hpc' = "awaitRun"
            /\ UNCHANGED forwards
  /\ UNCHANGED <<call, envVars, delivered>>

\* parseRawEmail resolves and the extraction runs: without an inspection
\* forward and return; with one start processInspection, then forward.
DecodeResolves ==
  /\ hpc = "decode"
  /\ LET inspection == parseComplianceGoEmail(email.html, email.text,
                                             WorkerClock) IN
       IF IsNull(inspection)
       THEN Forward /\ UNCHANGED runVars
       ELSE processInspection(Val(inspection)) /\ Forward
  /\ UNCHANGED <<call, envVars, delivered>>

\* parseRawEmail rejects, or the extraction throws.
DecodeRejects ==
  /\ hpc = "decode"
  /\ HandlerCatch
  /\ UNCHANGED <<call, envVars, delivered>>

ForwardResolves ==
  /\ hpc = "forward"
  /\ hpc' = "returned"
  /\ UNCHANGED <<call, envVars, forwards, runVars, delivered>>

\* The forward of the try block rejects: the catch block forwards again.
ForwardRejects ==
  /\ hpc = "forward"
  /\ HandlerCatch
  /\ UNCHANGED <<call, envVars, delivered>>

\* The forward of the catch block settles; a rejection is logged.
CatchForwardSettles ==
  /\ hpc = "catchForward"
  /\ hpc' = "returned"
  /\ UNCHANGED <<call, envVars, forwards, runVars, delivered>>

\* ------------------------------------------------------------------------
\* getLegacyInspectionPath (the legacy A-M / N-Z structure)
\* ------------------------------------------------------------------------

\* LEGACY_PATHS.INSPECTIONS_ACTIVE_AM and INSPECTIONS_ACTIVE_NZ
INSPECTIONS_ACTIVE_AM ==
  << "S", "W", "P", "P", "P", "/", "I", "N", "S", "P", "E", "C", "T", "I",
     "O", "N", "S", "/", "P", "R", "O", "J", "E", "C", "T", "S", "/", "P",
     "R", "O", "J", "E", "C", "T", "S", " ", "A", "-", "M" >>

INSPECTIONS_ACTIVE_NZ ==
  << "S", "W", "P", "P", "P", "/", "I", "N", "S", "P", "E", "C", "T", "I",
     "O", "N", "S", "/", "P", "R", "O", "J", "E", "C", "T", "S", "/", "P",
     "R", "O", "J", "E", "C", "T", "S", " ", "N", "-", "Z" >>

getLegacyInspectionPath(contractorName) ==
  LET firstLetter == toUpperCase(charAt0(contractorName))
      isInFirstHalf == StrLE(<<"A">>, firstLetter) /\ StrLE(firstLetter, <<"M">>)
      basePath == IF isInFirstHalf THEN INSPECTIONS_ACTIVE_AM
                  ELSE INSPECTIONS_ACTIVE_NZ
  IN basePath \o Slash \o contractorName

\* ------------------------------------------------------------------------
\* The manual upload script (scripts/manual-upload.ts)
\* ------------------------------------------------------------------------

\* The script's own copy of getProjectsFolder.
scriptGetProjectsFolder(contractor) ==
  LET firstChar == toUpperCase(charAt0(contractor))
      isNumberOrAtoM ==
        \/ StrLE(<<"0">>, firstChar) /\ StrLE(firstChar, <<"9">>)
        \/ StrLE(<<"A">>, firstChar) /\ StrLE(firstChar, <<"M">>)
  IN IF isNumberOrAtoM THEN PROJECTS_A_M ELSE PROJECTS_N_Z

\* The script is not running.
ScriptAtRest ==
  [pc |-> "none", reportUrl |-> Null, contractor |-> Null, project |-> Null,
   credentials |-> FALSE, today |-> Jan21, folderPath |-> <<>>,
   fileName |-> <<>>, launches |-> 0, browser |-> FALSE, pdf |-> FALSE,
   thrown |-> FALSE, uploads |-> <<>>, exitCode |-> Null,
   listed |-> "no"]

\* process.argv[2..4]: a contractor of each bucket, an empty one, a missing
\* project; the credentials set or not; today's date.
ScriptContractors ==
  {<<>>, <<"B", "P", "R">>, <<"3", "M">>, <<"s", "u", "n", "d", "t">>}

ScriptStarts ==
  {[ScriptAtRest EXCEPT !.pc = "main", !.reportUrl = Some(ReportUrl),
                        !.contractor = Some(c), !.project = p,
                        !.credentials = k, !.today = d] :
      c \in ScriptContractors, p \in {Null, Some(<<"P", "V">>)},
      k \in BOOLEAN, d \in {Jan21, WorkerClock}}

\* What the script leaves alone.
scriptFrame ==
  <<call, email, listing, handlerVars, ppc, run, stages, notifications,
    pdfVars, uploadVars, delivered>>

\* process.exit(code), or the end of main.
Exit(code) == script' = [script EXCEPT !.pc = "exited", !.exitCode = Some(code)]

\* listFiles has settled (listed is how) and a file of the name exists:
\* process.exit(0).
ScriptFileExists(outcome) ==
  script' = [script EXCEPT !.pc = "exited", !.exitCode = Some(0),
                           !.listed = outcome]

\* listFiles has settled and the script goes on: generatePdf is called and
\* runs up to puppeteer.launch.
ScriptGeneratePdf(outcome) ==
  script' = [script EXCEPT !.pc = "launch", !.launches = @ + 1,
                           !.listed = outcome]

\* main up to its first await, client.listFiles(folderPath).
ScriptMain ==
  /\ script.pc = "main"
  /\ IF Falsy(script.reportUrl) \/ Falsy(script.contractor)
          \/ Falsy(script.project)
     THEN Exit(1)
     ELSE IF ~script.credentials THEN Exit(1)
     ELSE LET folder == scriptGetProjectsFolder(Val(script.contractor)) IN
          script' = [script EXCEPT
            !.pc = "list",
            !.fileName = formatFilename(script.today),
            !.folderPath = PathRoot \o folder \o Slash
                             \o Val(script.contractor) \o Slash
                             \o Val(script.project) \o Slash
                             \o NumberToString(script.today.year)]
  /\ UNCHANGED scriptFrame

\* The listing is not looked at: the script always renders.
ScriptListResolves_noCheck ==
  /\ script.pc = "list"
  /\ ScriptGeneratePdf("resolved")
  /\ UNCHANGED scriptFrame

\* listFiles resolves: a file of the computed name ends the script.
ScriptListResolves ==
  /\ script.pc = "list"
  /\ IF script.fileName \in listing
     THEN ScriptFileExists("resolved")
     ELSE ScriptGeneratePdf("resolved")
  /\ UNCHANGED scriptFrame

\* listFiles rejects (the folder might not exist yet): continue.
ScriptListRejects ==
  /\ script.pc = "list"
  /\ ScriptGeneratePdf("rejected")
  /\ UNCHANGED scriptFrame

ScriptLaunchResolves ==
  /\ script.pc = "launch"
  /\ script' = [script EXCEPT !.pc = "newPage", !.browser = TRUE]
  /\ UNCHANGED scriptFrame

\* puppeteer.launch is outside the try block: main rejects, exit 1.
ScriptLaunchRejects ==
  /\ script.pc = "launch"
  /\ Exit(1)
  /\ UNCHANGED scriptFrame

\* An await of the try block rejects: the finally block closes the browser.
ScriptThrow == script' = [script EXCEPT !.pc = "close", !.thrown = TRUE]

ScriptNewPageResolves ==
  /\ script.pc = "newPage"
  /\ script' = [script EXCEPT !.pc = "goto"]
  /\ UNCHANGED scriptFrame

ScriptNewPageRejects ==
  /\ script.pc = "newPage"
  /\ ScriptThrow
  /\ UNCHANGED scriptFrame

ScriptGotoResolves ==
  /\ script.pc = "goto"
  /\ script' = [script EXCEPT !.pc = "pdf"]
  /\ UNCHANGED scriptFrame

ScriptGotoRejects ==
  /\ script.pc = "goto"
  /\ ScriptThrow
  /\ UNCHANGED scriptFrame

ScriptPdfResolves ==
  /\ script.pc = "pdf"
  /\ script' = [script EXCEPT !.pc = "close", !.pdf = TRUE]
  /\ UNCHANGED scriptFrame

ScriptPdfRejects ==
  /\ script.pc = "pdf"
  /\ ScriptThrow
  /\ UNCHANGED scriptFrame

\* browser.close() resolves: the exception goes on to main().catch, or the
\* PDF is returned and client.upload is called.
ScriptCloseResolves ==
  /\ script.pc = "close"
  /\ IF script.thrown
     THEN script' = [script EXCEPT !.pc = "exited", !.browser = FALSE,
                                   !.exitCode = Some(1)]
     ELSE script' = [script EXCEPT !.pc = "upload", !.browser = FALSE]
  /\ UNCHANGED scriptFrame

\* browser.close() rejects in the finally block: main rejects.
ScriptCloseRejects ==
  /\ script.pc = "close"
  /\ Exit(1)
  /\ UNCHANGED scriptFrame

ScriptUploadResolves ==
  /\ script.pc = "upload"
  /\ script' = [script EXCEPT
       !.pc = "exited",
       !.uploads = Append(@, script.folderPath \o Slash \o script.fileName),
       !.exitCode = Some(0)]
  /\ UNCHANGED scriptFrame

ScriptUploadRejects ==
  /\ script.pc = "upload"
  /\ Exit(1)
  /\ UNCHANGED scriptFrame

InitScript ==
  /\ call = Idle
  /\ email = NoEmail
  /\ listing \in Listings
  /\ script \in ScriptStarts
  /\ WorkerAtRest

NextScript ==
  \/ ScriptMain \/ ScriptListResolves \/ ScriptListRejects
  \/ ScriptLaunchResolves \/ ScriptLaunchRejects
  \/ ScriptNewPageResolves \/ ScriptNewPageRejects
  \/ ScriptGotoResolves \/ ScriptGotoRejects
  \/ ScriptPdfResolves \/ ScriptPdfRejects
  \/ ScriptCloseResolves \/ ScriptCloseRejects
  \/ ScriptUploadResolves \/ ScriptUploadRejects

SpecScript == InitScript /\ [][NextScript]_vars

\* ------------------------------------------------------------------------
\* Spec: one inbound e-mail through the handler and the pipeline
\* ------------------------------------------------------------------------

Init ==
  /\ call = Idle
  /\ email \in Emails
  /\ listing \in Listings
  /\ script = ScriptAtRest
  /\ WorkerAtRest

Next ==
  \/ HandlerStart \/ ReadResolves \/ ReadRejects
  \/ DecodeResolves \/ DecodeRejects
  \/ ForwardResolves \/ ForwardRejects \/ CatchForwardSettles
  \/ LaunchResolves \/ LaunchRejects \/ NewPageResolves \/ NewPageRejects
  \/ GotoResolves \/ GotoRejects \/ SettleElapses
  \/ PdfResolves \/ PdfRejects \/ BackoffElapses \/ CloseSettles
  \/ TokenResponds \/ TokenRejects \/ TokenJsonResolves \/ TokenJsonRejects
  \/ DrivesResponds \/ DrivesRejects \/ DrivesJsonResolves
  \/ DrivesJsonRejects
  \/ PutResponds \/ PutRejects \/ PutTextResolves \/ PutTextRejects
  \/ PutJsonResolves \/ PutJsonRejects
  \/ SendResolves \/ SendRejects

Spec == Init /\ [][Next]_vars


\* ------------------------------------------------------------------------
\* SpecPure: the pure functions applied to bounded inputs
\* ------------------------------------------------------------------------

\* Every concatenation of at most n of the tokens.
RECURSIVE TokenStrings(_, _)
TokenStrings(tokens, n) ==
  IF n = 0 THEN {<<>>}
  ELSE LET shorter == TokenStrings(tokens, n - 1)
       IN shorter \cup {s \o t : s \in shorter, t \in tokens}

SiteTokens == {SpacedDash, Dash, <<" ">>, <<"a">>, <<"N">>}
SiteNames == TokenStrings(SiteTokens, MaxParts)

\* First characters on both sides of every boundary getProjectsFolder draws,
\* symbols below, between and above the ranges, and non-ASCII characters.
FolderChars ==
  { <<" ">>, <<"#">>, <<"/">>, <<"0">>, <<"5">>, <<"9">>, <<":">>, <<"@">>,
    <<"A">>, <<"F">>, <<"M">>, <<"N">>, <<"Z">>, <<"[">>, <<"U+0060">>,
    <<"a">>, <<"m">>, <<"n">>, <<"z">>, <<"{">>, <<"é">>, <<"U+FB01">> }
Contractors == TokenStrings(FolderChars, MaxContractorLen)

Years == {2026, 1999, 0}
YearArgs == {Null} \cup {Some(y) : y \in Years}
ClockYears == {2026, 2027}

ParseSiteNameCalls ==
  {[fn |-> "parseSiteName", arg |-> <<s>>, done |-> FALSE, ret |-> <<>>] :
      s \in SiteNames}

SiteNameToSharePointPathCalls ==
  {[fn |-> "siteNameToSharePointPath", arg |-> <<s, y, n>>, done |-> FALSE, ret |-> <<>>] :
      s \in SiteNames, y \in YearArgs, n \in ClockYears}

GetProjectsFolderCalls ==
  {[fn |-> "getProjectsFolder", arg |-> <<c>>, done |-> FALSE, ret |-> <<>>] :
      c \in Contractors}

GetBackoffDelayCalls ==
  {[fn |-> "getBackoffDelay", arg |-> <<a, rl, r>>, done |-> FALSE, ret |-> <<>>] :
      a \in 1..MaxAttemptArg, rl \in BOOLEAN, r \in RandomValues}

\* The values of the site-name field: a name, white space only, nothing.
SiteValues == {<<"A", " ", "-", " ", "B">>, <<" ">>, <<>>}

\* A report URL of the CDN with the given path, ".html" appended.
UrlWith(path) == UrlBase \o path \o DotHtml

\* Two clocks: a morning, and a new year's midday.
Clocks ==
  { [year |-> 2026, month |-> 10, day |-> 4, hours |-> 9],
    [year |-> 2027, month |-> 0, day |-> 1, hours |-> 12] }

\* The pieces of a decoded part: the site-name field in both formats with
\* each value, and a link to a report.
DocPieces ==
  {SiteNameHtml(v) : v \in SiteValues}
  \cup {SiteNameLine(v) : v \in SiteValues}
  \cup {ReportLink(ReportUrl)}

HtmlDocs == TokenStrings(DocPieces, MaxDocParts)

\* The text part: absent, empty, a link only, a site-name line only.
TextArgs ==
  { Null, Some(<<>>), Some(ReportLink(ReportUrl)),
    Some(SiteNameLine(<<"A", " ", "-", " ", "B">>)) }

\* Date tokens: one- and two-digit days, the twelve months and three
\* abbreviations the table does not have, a plain, a leap and a century
\* year.
DayStrings == {<<"1">>, <<"0", "9">>, <<"1", "5">>, <<"2", "9">>, <<"3", "1">>}
MonthStrings ==
  {MonthNames[m] : m \in 1..Len(MonthNames)}
  \cup {<<"X", "y", "z">>, <<"J", "A", "N">>, <<"d", "e", "c">>}
YearStrings == {<<"2", "6">>, <<"2", "4">>, <<"0", "0">>}

DateToken(d, m, y) == d \o m \o y \o <<"-">>

\* File names "IR_<token>1" with every token, "IR_1" without one, and
\* "<token>/IR_<token>1" with a token in a directory segment too.
UrlPaths ==
  {<<"I", "R", "_">> \o DateToken(d, m, y) \o <<"1">> :
      d \in DayStrings, m \in MonthStrings, y \in YearStrings}
  \cup {<<"I", "R", "_", "1">>}
  \cup {DateToken(<<"0", "1">>, MonthNames[2], <<"2", "5">>)
          \o <<"/", "I", "R", "_">> \o DateToken(d, MonthNames[1], <<"2", "6">>)
          \o <<"1">> : d \in DayStrings}

ParseComplianceGoEmailCalls ==
  {[fn |-> "parseComplianceGoEmail", arg |-> <<h, t, n>>, done |-> FALSE,
    ret |-> <<>>] : h \in HtmlDocs, t \in TextArgs, n \in Clocks}
  \cup
  {[fn |-> "parseComplianceGoEmail",
    arg |-> <<SiteNameHtml(<<"A", " ", "-", " ", "B">>)
                \o ReportLink(UrlWith(path)), Null, n>>,
    done |-> FALSE, ret |-> <<>>] : path \in UrlPaths, n \in Clocks}

\* Dates of one-, two-, four- and five-digit years, at three times of day.
FilenameDates ==
  {[year |-> y, month |-> m, day |-> d, hours |-> h] :
      y \in {5, 99, 1999, 2005, 2026, 12345}, m \in 0..11,
      d \in {1, 9, 10, 28}, h \in {0, 12, 23}}

FormatFilenameCalls ==
  {[fn |-> "formatFilename", arg |-> <<d>>, done |-> FALSE, ret |-> <<>>] :
      d \in FilenameDates}

\* Senders: the allow-listed address in both cases, the vendor's domain,
\* another address of the same company, addresses that contain an
\* allow-listed string without being one, and others.
SenderChiLower ==
  << "c", "h", "i", "@", "d", "e", "s", "e", "r", "t", "s", "e", "r", "v",
     "i", "c", "e", "s", ".", "n", "e", "t" >>

SenderVendorUpper ==
  << "R", "e", "p", "o", "r", "t", "s", "@", "C", "o", "m", "p", "l", "i",
     "a", "n", "c", "e", "G", "o", ".", "C", "O", "M" >>

SenderLogan ==
  << "l", "o", "g", "a", "n", "@", "d", "e", "s", "e", "r", "t", "s", "e",
     "r", "v", "i", "c", "e", "s", ".", "n", "e", "t" >>

SenderMichi ==
  << "m", "i", "c", "h", "i", "@", "d", "e", "s", "e", "r", "t", "s", "e",
     "r", "v", "i", "c", "e", "s", ".", "n", "e", "t" >>

SenderChiSuffix ==
  << "c", "h", "i", "@", "d", "e", "s", "e", "r", "t", "s", "e", "r", "v",
     "i", "c", "e", "s", ".", "n", "e", "t", ".", "e", "x", "a", "m", "p",
     "l", "e", ".", "o", "r", "g" >>

SenderVendorSuffix ==
  << "a", "@", "c", "o", "m", "p", "l", "i", "a", "n", "c", "e", "g", "o",
     ".", "c", "o", "m", ".", "e", "x", "a", "m", "p", "l", "e", ".", "o",
     "r", "g" >>

SenderVendorLocal ==
  << "c", "o", "m", "p", "l", "i", "a", "n", "c", "e", "g", "o", ".", "c",
     "o", "m", "@", "e", "x", "a", "m", "p", "l", "e", ".", "o", "r", "g" >>

SenderVendorSub ==
  << "a", "@", "n", "o", "t", "c", "o", "m", "p", "l", "i", "a", "n", "c",
     "e", "g", "o", ".", "c", "o", "m" >>

Senders ==
  { SenderSupport, SenderChi, SenderOther, SenderChiLower, SenderVendorUpper,
    SenderLogan, SenderMichi, SenderChiSuffix, SenderVendorSuffix,
    SenderVendorLocal, SenderVendorSub, <<>> }

\* One- to three-character local parts put before "@<domain>".
LocalParts == TokenStrings({<<"a">>, <<"C">>, <<".">>}, MaxLocalLen) \ {<<>>}

SenderDomains ==
  { SubSeq(SenderChiLower, 4, Len(SenderChiLower)),
    SubSeq(SenderSupport, 8, Len(SenderSupport)),
    SubSeq(SenderOther, 4, Len(SenderOther)) }

ShouldProcessEmailCalls ==
  {[fn |-> "shouldProcessEmail", arg |-> <<from>>, done |-> FALSE,
    ret |-> <<>>] :
      from \in Senders \cup {l \o d : l \in LocalParts, d \in SenderDomains}}

GetLegacyInspectionPathCalls ==
  {[fn |-> "getLegacyInspectionPath", arg |-> <<c>>, done |-> FALSE,
    ret |-> <<>>] : c \in Contractors}

InitPure ==
  /\ \/ call \in ParseSiteNameCalls
     \/ call \in SiteNameToSharePointPathCalls
     \/ call \in GetProjectsFolderCalls
     \/ call \in GetBackoffDelayCalls
     \/ call \in ParseComplianceGoEmailCalls
     \/ call \in FormatFilenameCalls
     \/ call \in ShouldProcessEmailCalls
     \/ call \in GetLegacyInspectionPathCalls
  /\ email = NoEmail
  /\ listing = {}
  /\ script = ScriptAtRest
  /\ WorkerAtRest

Return(v) ==
  /\ call' = [call EXCEPT !.done = TRUE, !.ret = v]
  /\ UNCHANGED workerVars

CallParseSiteName ==
  /\ call.fn = "parseSiteName" /\ ~call.done
  /\ Return(parseSiteName(call.arg[1]))

CallSiteNameToSharePointPath ==
  /\ call.fn = "siteNameToSharePointPath" /\ ~call.done
  /\ Return(siteNameToSharePointPath(call.arg[1], call.arg[2], call.arg[3]))

CallGetProjectsFolder ==
  /\ call.fn = "getProjectsFolder" /\ ~call.done
  /\ Return(getProjectsFolder(call.arg[1]))

CallGetBackoffDelay ==
  /\ call.fn = "getBackoffDelay" /\ ~call.done
  /\ Return(getBackoffDelay(call.arg[1], call.arg[2], call.arg[3]))

CallParseComplianceGoEmail ==
  /\ call.fn = "parseComplianceGoEmail" /\ ~call.done
  /\ Return(parseComplianceGoEmail(call.arg[1], call.arg[2], call.arg[3]))

CallFormatFilename ==
  /\ call.fn = "formatFilename" /\ ~call.done
  /\ Return(formatFilename(call.arg[1]))

CallShouldProcessEmail ==
  /\ call.fn = "shouldProcessEmail" /\ ~call.done
  /\ Return(shouldProcessEmail(call.arg[1]))

CallGetLegacyInspectionPath ==
  /\ call.fn = "getLegacyInspectionPath" /\ ~call.done
  /\ Return(getLegacyInspectionPath(call.arg[1]))

NextPure ==
  \/ CallParseSiteName
  \/ CallSiteNameToSharePointPath
  \/ CallGetProjectsFolder
  \/ CallGetBackoffDelay
  \/ CallParseComplianceGoEmail
  \/ CallFormatFilename
  \/ CallShouldProcessEmail
  \/ CallGetLegacyInspectionPath

SpecPure == InitPure /\ [][NextPure]_vars

\* ========================================================================
\* Properties
\* ========================================================================

\* The pure call under check has returned.
Returned(fn) == call.fn = fn /\ call.done

\* The index of the first occurrence of sep in s (s includes sep).
FirstIndexOf(s, sep) ==
  CHOOSE i \in 1..Len(s) :
    OccursAt(s, sep, i) /\ \A j \in 1..(i - 1) : ~OccursAt(s, sep, j)

\* C1: for every site name that contains " - ", parseSiteName returns a
\* non-null result whose contractor is the trimmed, upper-cased text before
\* the first " - " and whose project is the trimmed text after that first
\* " - ", later " - " kept as they are; a bare hyphen anywhere in the name,
\* before the " - " included, does not change this.
C1_SpacedSeparatorWins ==
  (Returned("parseSiteName") /\ includes(call.arg[1], SpacedDash)) =>
    LET s == call.arg[1]
        i == FirstIndexOf(s, SpacedDash)
    IN /\ ~IsNull(call.ret)
       /\ Val(call.ret).contractor = toUpperCase(trim(SubSeq(s, 1, i - 1)))
       /\ Val(call.ret).project = trim(SubSeq(s, i + Len(SpacedDash), Len(s)))

\* A name with a bare hyphen before its first " - " and a second " - " later
\* has been parsed, and the contractor kept the bare hyphen.
C1_Witness ==
  /\ Returned("parseSiteName")
  /\ LET s == call.arg[1] IN
       /\ includes(s, SpacedDash)
       /\ Len(split(s, SpacedDash)) >= 3
       /\ FirstIndexOf(s, Dash) < FirstIndexOf(s, SpacedDash)
       /\ includes(Val(call.ret).contractor, Dash)

\* C2: siteNameToSharePointPath(s, y) is null exactly when parseSiteName(s)
\* is null; otherwise it is "SWPPP/INSPECTIONS/PROJECTS/" + bucket + "/" +
\* contractor + "/" + project + "/" + y for the parsed contractor and
\* project, whatever the clock says; only without y the clock's year is used.
C2_PathFormat ==
  Returned("siteNameToSharePointPath") =>
    LET s == call.arg[1]
        y == call.arg[2]
        now == call.arg[3]
        parsed == parseSiteName(s)
    IN /\ IsNull(call.ret) <=> IsNull(parsed)
       /\ ~IsNull(parsed) =>
            Val(call.ret) =
              PathRoot \o getProjectsFolder(Val(parsed).contractor) \o <<"/">>
                \o Val(parsed).contractor \o <<"/">> \o Val(parsed).project
                \o <<"/">> \o NumberToString(IF IsNull(y) THEN now ELSE Val(y))

\* "a - N" with year 2026, asked while the clock says 2027, resolved to
\* "SWPPP/INSPECTIONS/PROJECTS/PROJECTS A-M/A/N/2026".
C2_Witness ==
  /\ Returned("siteNameToSharePointPath")
  /\ call.arg = << <<"a", " ", "-", " ", "N">>, Some(2026), 2027 >>
  /\ call.ret = Some(
       << "S", "W", "P", "P", "P", "/",
          "I", "N", "S", "P", "E", "C", "T", "I", "O", "N", "S", "/",
          "P", "R", "O", "J", "E", "C", "T", "S", "/",
          "P", "R", "O", "J", "E", "C", "T", "S", " ", "A", "-", "M", "/",
          "A", "/", "N", "/", "2", "0", "2", "6" >>)

\* One character that is a digit 0-9 or a letter A-M.
DigitOrAtoM ==
  {<<Ascii[i]>> : i \in (CharCode("0") - 31)..(CharCode("9") - 31)}
  \cup {<<Ascii[i]>> : i \in (CharCode("A") - 31)..(CharCode("M") - 31)}

\* C3: getProjectsFolder returns one of the two folders for every contractor,
\* and "PROJECTS A-M" if and only if the first character, upper-cased, is a
\* digit 0-9 or a letter A-M.
C3_BucketIffDigitOrAtoM ==
  Returned("getProjectsFolder") =>
    LET contractor == call.arg[1] IN
      /\ call.ret \in {PROJECTS_A_M, PROJECTS_N_Z}
      /\ call.ret = PROJECTS_A_M <=>
           (contractor # <<>> /\ UpperChar(contractor[1]) \in DigitOrAtoM)

\* C5: for every attempt, both classifications and every random draw the
\* delay is at most 60 000 ms, and the delay without jitter
\* (Math.random() = 1/2) does not decrease from one attempt to the next.
C5_BackoffCeilingAndMonotone ==
  Returned("getBackoffDelay") =>
    LET n == call.arg[1]
        isRateLimit == call.arg[2]
    IN /\ call.ret <= 60000
       /\ n > 1 =>
            getBackoffDelay(n - 1, isRateLimit, RandomHalf)
              <= getBackoffDelay(n, isRateLimit, RandomHalf)

\* A rate-limit delay for attempt 4 (80 000 ms before jitter) drawn with
\* positive jitter was cut to the ceiling.
C5_Witness ==
  /\ Returned("getBackoffDelay")
  /\ call.arg[1] = 4 /\ call.arg[2] /\ call.arg[3] > RandomHalf
  /\ call.ret = 60000

\* ------------------------------------------------------------------------
\* Properties of the worker
\* ------------------------------------------------------------------------

\* processInspection has been called.
Dispatched == ppc # "idle"

\* The run has a destination folder.
Routable == ~IsNull(run.folderPath)

\* The run is past its notification call.
Notified == ppc \in {"send", "done"}

\* generatePdf is inside the try block of an attempt.
InAttempt == ppc \in {"launch", "newPage", "goto", "settle", "pdf"}

LastStage == stages[Len(stages)]

IsPrefix(s, t) == Len(s) <= Len(t) /\ SubSeq(t, 1, Len(s)) = s

\* C4: generatePdf launches at most MAX_PDF_RETRIES (5) render attempts;
\* attempt k+1 is running only when attempts 1..k have all failed and each
\* of their backoff waits has elapsed; a failure of either classification
\* with attempts left is followed by a wait and the next attempt, so the
\* loop gives up only after 5 failures and 4 waits; and once page.pdf has
\* resolved there is no further launch, failure or wait.
C4_BoundedRetryLoop ==
  /\ launches <= MAX_PDF_RETRIES
  /\ InAttempt =>
       /\ launches = attempt
       /\ failures = launches - 1
       /\ waits = failures /\ waitsElapsed = failures
  /\ ppc = "backoff" =>
       /\ launches = attempt /\ launches < MAX_PDF_RETRIES
       /\ failures = launches
       /\ waits = failures /\ waitsElapsed = failures - 1
  /\ pdf =>
       /\ failures = launches - 1
       /\ waits = failures /\ waitsElapsed = failures
  /\ (Notified /\ Routable /\ ~pdf) =>
       /\ launches = MAX_PDF_RETRIES /\ failures = MAX_PDF_RETRIES
       /\ waits = MAX_PDF_RETRIES - 1 /\ waitsElapsed = waits

\* The fifth attempt rendered the PDF after four failures, the last of them
\* not a rate-limit error, and the run went on to its end.
C4_Witness ==
  /\ ppc = "done" /\ pdf
  /\ launches = MAX_PDF_RETRIES /\ waitsElapsed = MAX_PDF_RETRIES - 1
  /\ ~IsNull(lastError) /\ ~isRateLimitError(Val(lastError))

ClaimedOrder ==
  <<"PENDING", "RENDERING", "RENDERED", "PATH_RESOLVED", "EXISTS_CHECKED",
    "UPLOADING">>

\* C7 as stated: the steps of a run occur in the order PENDING, RENDERING,
\* RENDERED, PATH_RESOLVED, EXISTS_CHECKED, UPLOADING, then UPLOADED or
\* FAILED, none skipped or reordered.
C7_RenderBeforePathResolved ==
  Dispatched =>
    /\ \/ IsPrefix(stages, ClaimedOrder \o <<"UPLOADED">>)
       \/ IsPrefix(stages, ClaimedOrder \o <<"FAILED">>)
    /\ ppc = "done" => Len(stages) = Len(ClaimedOrder) + 1

\* The orders of steps a run of the worker can end with.
WorkerOrders ==
  { <<"PENDING", "PATH_RESOLVED", "RENDERING", "RENDERED", "UPLOADING",
      "UPLOADED">>,
    <<"PENDING", "PATH_RESOLVED", "RENDERING", "RENDERED", "UPLOADING",
      "FAILED">>,
    <<"PENDING", "PATH_RESOLVED", "RENDERING", "FAILED">>,
    <<"PENDING", "FAILED">> }

\* C7 as amended: the steps of a run occur in the order PENDING,
\* PATH_RESOLVED, RENDERING, RENDERED, UPLOADING, then UPLOADED or FAILED:
\* the path is resolved before the render is started, RENDERED is reached
\* only with the PDF, and there is no existence check. A run that fails ends
\* in FAILED from the step it failed at: after PENDING when the path cannot
\* be resolved, after RENDERING when the retries are exhausted, after
\* UPLOADING when the upload fails. No other step is skipped or reordered.
C7_PathResolvedBeforeRender ==
  Dispatched =>
    /\ \E order \in WorkerOrders : IsPrefix(stages, order)
    /\ ppc = "done" => stages \in WorkerOrders
    /\ "RENDERED" \in {stages[i] : i \in 1..Len(stages)} => pdf

\* A run went through all six steps and ended UPLOADED.
C7_Witness ==
  /\ ppc = "done"
  /\ stages = <<"PENDING", "PATH_RESOLVED", "RENDERING", "RENDERED",
                "UPLOADING", "UPLOADED">>

\* C8: when siteNameToSharePointPath returns null the run ends in a failure
\* whose one notification carries "Could not determine SharePoint folder
\* path" and folder "N/A": no render attempt is launched, nothing waits or
\* is retried, and nothing is put to the store.
C8_UnroutableIsTerminal ==
  (Dispatched /\ ~Routable) =>
    /\ Notified
    /\ stages = <<"PENDING", "FAILED">>
    /\ Len(notifications) = 1
    /\ ~notifications[1].success
    /\ notifications[1].error = Some(UnroutableReason)
    /\ notifications[1].folderPath = NotApplicable
    /\ launches = 0 /\ attempt = 0 /\ failures = 0 /\ waits = 0
    /\ puts = 0 /\ stored = {}

\* The run for "InvalidSiteName" has ended, unrouted.
C8_Witness ==
  /\ ppc = "done" /\ ~Routable
  /\ run.siteName = SiteInvalid
  /\ run.contractor = UNKNOWN

\* C9: a run of processInspection calls sendNotification exactly once: no
\* call before its outcome is known, one call when it is (unroutable, render
\* given up, upload failed, uploaded), reporting success exactly when the
\* run ended UPLOADED, and none after.
C9_ExactlyOneNotification ==
  /\ Len(notifications) <= 1
  /\ Notified <=> Len(notifications) = 1
  /\ Notified => (notifications[1].success <=> LastStage = "UPLOADED")
  /\ (Dispatched /\ ~Notified) => LastStage \notin {"UPLOADED", "FAILED"}

\* The store answered the PUT with a status that is not ok, and the run
\* ended with its one failure notification.
C9_Witness ==
  /\ ppc = "done" /\ puts = 1 /\ status \in FailStatuses
  /\ LastStage = "FAILED"
  /\ Len(notifications) = 1

\* C10: the handler has called message.forward at least once when it
\* returns, whichever way it went, and from the step that starts a run on:
\* nothing the run does comes before the forward or takes it back.
C10_ForwardOnEveryPath ==
  /\ hpc = "returned" => forwards >= 1
  /\ Dispatched => forwards >= 1
  /\ hpc \in {"forward", "catchForward"} => forwards >= 1

\* The handler returned after one forward while the run it started ended in
\* a failure.
C10_Witness ==
  /\ hpc = "returned" /\ forwards = 1
  /\ ppc = "done" /\ LastStage = "FAILED" /\ Routable

\* ------------------------------------------------------------------------
\* Properties of parseSiteName, continued
\* ------------------------------------------------------------------------

\* C16: every non-null result of parseSiteName has a non-empty contractor
\* that equals its own upper-casing and a non-empty project.
C16_ValidSiteIdentity ==
  (Returned("parseSiteName") /\ ~IsNull(call.ret)) =>
    /\ Val(call.ret).contractor # <<>>
    /\ Val(call.ret).contractor = toUpperCase(Val(call.ret).contractor)
    /\ Val(call.ret).project # <<>>

\* C17: for every site name without " - " and with a "-", parseSiteName
\* returns the trimmed, upper-cased text before the first "-" as contractor
\* and the trimmed text after that first "-", later hyphens kept, as project.
C17_BareHyphenSplit ==
  (Returned("parseSiteName") /\ ~includes(call.arg[1], SpacedDash)
     /\ includes(call.arg[1], Dash)) =>
    LET s == call.arg[1]
        i == FirstIndexOf(s, Dash)
    IN /\ ~IsNull(call.ret)
       /\ Val(call.ret).contractor = toUpperCase(trim(SubSeq(s, 1, i - 1)))
       /\ Val(call.ret).project = trim(SubSeq(s, i + 1, Len(s)))

\* "a-N-" was parsed into contractor "A" and project "N-".
C17_Witness ==
  /\ Returned("parseSiteName")
  /\ call.arg[1] = <<"a", "-", "N", "-">>
  /\ call.ret = Some([contractor |-> <<"A">>, project |-> <<"N", "-">>])

\* C18: parseSiteName returns null if and only if the site name holds no
\* "-" at all.
C18_NullIffNoHyphen ==
  Returned("parseSiteName") =>
    (IsNull(call.ret) <=> ~includes(call.arg[1], Dash))

\* The name "-", a hyphen and nothing else, was parsed to a result that is
\* not null.
C18_Witness ==
  /\ Returned("parseSiteName")
  /\ call.arg[1] = <<"-">>
  /\ ~IsNull(call.ret)

\* ------------------------------------------------------------------------
\* Properties of the worker, continued
\* ------------------------------------------------------------------------

\* C11: the handler does not wait for the run it starts. From the step that
\* calls processInspection on, the forward has been called and the handler
\* is at that forward or past it; and the forward of the try block can
\* settle, and the handler return, wherever the run is: rendering, waiting
\* in backoff, uploading, or stopped for good.
C11_ForwardDoesNotAwaitRun ==
  /\ Dispatched =>
       /\ hpc \in {"forward", "catchForward", "returned"}
       /\ forwards >= 1
  /\ hpc = "forward" => ENABLED ForwardResolves

\* The handler has returned while the run waits in a backoff.
C11_Witness ==
  /\ hpc = "returned"
  /\ ppc = "backoff"

\* ------------------------------------------------------------------------
\* parseComplianceGoEmail and formatFilename
\* ------------------------------------------------------------------------

\* html || text || "" and `${html}\n${text ?? ""}` of the call in progress.
ArgContent ==
  IF call.arg[1] # <<>> THEN call.arg[1]
  ELSE IF ~Falsy(call.arg[2]) THEN Val(call.arg[2]) ELSE <<>>

ArgAllContent ==
  call.arg[1] \o <<"\n">>
    \o (IF IsNull(call.arg[2]) THEN <<>> ELSE Val(call.arg[2]))

\* The part carries the site-name label.
HasSiteField(s) == includes(toLowerCase(s), SiteNameLabel)

\* C12: parseComplianceGoEmail returns a record only if a site name and a
\* report URL were both found: the record holds a non-empty site name of a
\* part that carries the label and the first report link of the html and
\* text parts together.  A link that only the text part carries is found
\* when the site name comes from the html part.
C12_BothFieldsOrNull ==
  Returned("parseComplianceGoEmail") =>
    LET html == call.arg[1]
        text == call.arg[2]
        inHtml == trimmedGroup(matchSiteNameHtml(html))
    IN /\ ~IsNull(call.ret) =>
            /\ HasSiteField(ArgAllContent)
            /\ Val(call.ret).siteName # <<>>
            /\ ~IsNull(matchReportUrl(ArgAllContent))
            /\ Val(call.ret).reportUrl = Val(matchReportUrl(ArgAllContent))
       /\ ( /\ ~Falsy(inHtml)
            /\ IsNull(matchReportUrl(html))
            /\ ~IsNull(text)
            /\ ~IsNull(matchReportUrl(Val(text))) ) =>
            /\ ~IsNull(call.ret)
            /\ Val(call.ret).siteName = Val(inHtml)
            /\ Val(call.ret).reportUrl = Val(matchReportUrl(Val(text)))

\* The site name is in the html part and the link in the text part only.
C12_Witness ==
  /\ Returned("parseComplianceGoEmail")
  /\ call.arg[1] = SiteNameHtml(<<"A", " ", "-", " ", "B">>)
  /\ call.arg[2] = Some(ReportLink(ReportUrl))
  /\ ~IsNull(call.ret)
  /\ Val(call.ret).siteName = <<"A", " ", "-", " ", "B">>
  /\ Val(call.ret).reportUrl = ReportUrl

\* The date token of the returned record's URL, or null.
RetDateToken == matchDateFrom(Val(call.ret).reportUrl, 1)

IsMonthName(monthStr) == \E m \in 1..Len(MonthNames) : MonthNames[m] = monthStr

\* The clock's calendar date at 12:00.
MiddayOf(now) ==
  [year |-> now.year, month |-> now.month, day |-> now.day, hours |-> 12]

\* C13: a record whose URL has no date token, or a token whose month is not
\* one of the twelve abbreviations, has the current calendar date at 12:00
\* as its inspectionDate.
C13_FallbackIsTodayAtMidday ==
  ( /\ Returned("parseComplianceGoEmail")
    /\ ~IsNull(call.ret)
    /\ \/ IsNull(RetDateToken)
       \/ ~IsMonthName(Val(RetDateToken)[2]) ) =>
    Val(call.ret).inspectionDate = MiddayOf(call.arg[3])

\* The last path segment of a URL.
FileNameOf(url) == SubSeq(url, lastIndexOfSlash(url, Len(url)) + 1, Len(url))

\* C14: the inspectionDate of a record is the date of the token in the file
\* name of its URL; a token in an earlier segment does not determine it.
C14_DateFromFileNameOnly ==
  (Returned("parseComplianceGoEmail") /\ ~IsNull(call.ret)) =>
    Val(call.ret).inspectionDate
      = inspectionDateOf(FileNameOf(Val(call.ret).reportUrl), call.arg[3])

\* C15: when the value of the HTML pattern is empty after trimming, or no
\* pattern matches, the result is null; the siteName of a record is the
\* non-empty trimmed text of the site-name field.
C15_BlankSiteNameIsNull ==
  Returned("parseComplianceGoEmail") =>
    LET inHtml == matchSiteNameHtml(ArgContent)
        inText == matchSiteNameText(ArgAllContent)
    IN /\ (~IsNull(inHtml) /\ trim(Val(inHtml)) = <<>>) => IsNull(call.ret)
       /\ (IsNull(inHtml) /\ IsNull(inText)) => IsNull(call.ret)
       /\ ~IsNull(call.ret) =>
            Val(call.ret).siteName \in {trim(v) : v \in SiteValues} \ {<<>>}

\* The last two decimal digits of n.
TwoDigits(n) == <<Ascii[CharCode("0") - 31 + ((n \div 10) % 10)],
                  Ascii[CharCode("0") - 31 + (n % 10)]>>

\* C19: formatFilename of any date is MM.DD.YY.pdf: the month, the day and
\* the year modulo 100, two digits each, and nothing of the time of day.
C19_FilenameIsTwoDigitFields ==
  Returned("formatFilename") =>
    LET date == call.arg[1] IN
    call.ret = TwoDigits(date.month + 1) \o <<".">> \o TwoDigits(date.day)
                 \o <<".">> \o TwoDigits(date.year % 100)
                 \o <<".", "p", "d", "f">>

\* C20: when the date token of the URL names one of the twelve months and a
\* day of that month, the inspectionDate is that day of that month of the
\* year 2000 + yy, at 12:00.
C20_DateFromToken ==
  (Returned("parseComplianceGoEmail") /\ ~IsNull(call.ret)) =>
    \A m \in 1..Len(MonthNames) :
      LET token == RetDateToken
          year == 2000 + parseInt(Val(token)[3])
          day == parseInt(Val(token)[1])
      IN ( /\ ~IsNull(token)
           /\ Val(token)[2] = MonthNames[m]
           /\ day >= 1
           /\ day <= daysInMonth(year, m - 1) ) =>
         Val(call.ret).inspectionDate
           = [year |-> year, month |-> m - 1, day |-> day, hours |-> 12]

\* 29Feb24- in the URL: the leap day of 2024 at midday.
C20_Witness ==
  /\ Returned("parseComplianceGoEmail")
  /\ ~IsNull(call.ret)
  /\ ~IsNull(RetDateToken)
  /\ Val(RetDateToken) = <<<<"2", "9">>, <<"F", "e", "b">>, <<"2", "4">>>>
  /\ Val(call.ret).inspectionDate
       = [year |-> 2024, month |-> 1, day |-> 29, hours |-> 12]

\* ------------------------------------------------------------------------
\* shouldProcessEmail
\* ------------------------------------------------------------------------

\* s ends with suffix and has at least one character before it.
EndsWithAfterLocal(s, suffix) ==
  /\ Len(s) > Len(suffix)
  /\ SubSeq(s, Len(s) - Len(suffix) + 1, Len(s)) = suffix

\* C21: shouldProcessEmail(from) is true exactly when from, ignoring case,
\* is chi@desertservices.net or an address at the domain compliancego.com;
\* an address that only contains one of the two strings is rejected.
C21_AllowListedSendersOnly ==
  Returned("shouldProcessEmail") =>
    LET fromLower == toLowerCase(call.arg[1]) IN
    (call.ret = TRUE) <=>
      \/ fromLower = ALLOWED_SENDERS[1]
      \/ EndsWithAfterLocal(fromLower, <<"@">> \o ALLOWED_SENDERS[2])

\* ------------------------------------------------------------------------
\* generatePdf: exhaustion, backoff, browser sessions
\* ------------------------------------------------------------------------

\* C22: once all MAX_PDF_RETRIES attempts have failed, no wait follows the
\* last failure, the error generatePdf holds to throw is the one the last
\* attempt was rejected with, and the one notification of the run is a
\* failure whose error is String() of that error.
C22_LastErrorSurfaced ==
  failures = MAX_PDF_RETRIES =>
    /\ waits = MAX_PDF_RETRIES - 1
    /\ ppc \in {"close", "send", "done"}
    /\ lastError = rejected
    /\ ~IsNull(rejected)
    /\ ppc \in {"send", "done"} =>
         /\ Len(notifications) = 1
         /\ ~notifications[1].success
         /\ notifications[1].error = Some(ErrorToString(Val(rejected)))
         /\ notifications[1].error # Some(ErrorToString(RetriesExhausted))

\* Five failures, the last a navigation timeout, and the run has ended.
C22_Witness ==
  /\ failures = MAX_PDF_RETRIES
  /\ ppc = "done"
  /\ rejected \in {Some(e) : e \in RenderErrors}
  /\ Val(rejected).name = TimeoutErrorName
  /\ notifications[1].error = Some(ErrorToString(Val(rejected)))

\* The substrings that make an error a rate-limit or availability error.
TransientMarks ==
  { <<"4", "2", "9">>, <<"5", "0", "3">>,
    <<"r", "a", "t", "e", " ", "l", "i", "m", "i", "t">>,
    << "n", "o", " ", "b", "r", "o", "w", "s", "e", "r", " ", "a", "v", "a",
       "i", "l", "a", "b", "l", "e" >> }

\* C23: the wait after failed attempt n, n in 1..4, has the base 10000 ms
\* when the lower-cased message of the error the attempt just failed with
\* holds one of the marks and 3000 ms otherwise, and lies between
\* 0.8 * min(base * 2^(n-1), 60000) and min(1.2 * base * 2^(n-1), 60000).
C23_BackoffBaseAndRange ==
  ppc = "backoff" =>
    LET base == IF \E mark \in TransientMarks :
                     includes(toLowerCase(Val(rejected).message), mark)
                THEN 10000 ELSE 3000
        exponential == base * Pow2(attempt - 1)
    IN /\ attempt \in 1..(MAX_PDF_RETRIES - 1)
       /\ 8 * Min(exponential, 60000) <= 10 * delay
       /\ 10 * delay <= Min(12 * exponential, 600000)

\* The second attempt fails with "No Browser Available" after a first one
\* that failed otherwise: the wait is 0.8 * 20000 ms.
C23_Witness ==
  /\ ppc = "backoff"
  /\ attempt = 2
  /\ ~IsNull(rejected)
  /\ toLowerCase(Val(rejected).message) \in TransientMarks
  /\ Val(rejected).message \notin TransientMarks
  /\ delay = 16000

\* ------------------------------------------------------------------------
\* uploadToSharePoint and sendNotification
\* ------------------------------------------------------------------------

\* The awaits of uploadToSharePoint and what follows them, in order.
UploadOrder ==
  <<"token", "tokenJson", "drives", "drivesJson", "put", "putText",
    "putJson", "send", "done">>

UploadRank(pc) == CHOOSE i \in 1..Len(UploadOrder) : UploadOrder[i] = pc

UploadSteps == {UploadOrder[i] : i \in 1..7}

NetworkFailure == Some(ErrorToString(NetworkError))

\* The error details a failure at each await of the upload can have.
UploadErrorsAt(pc) ==
  IF pc = "token"
  THEN {Some(ErrorToString(TokenFailed(s))) : s \in FailStatuses}
         \cup {NetworkFailure}
  ELSE IF pc = "drives"
  THEN {Some(DrivesFailed(s)) : s \in FailStatuses} \cup {NetworkFailure}
  ELSE IF pc = "drivesJson" THEN {Some(NoDocumentsDrive), NetworkFailure}
  ELSE IF pc = "putText"
  THEN {Some(UploadFailed(s, ErrorBody)) : s \in FailStatuses}
         \cup {NetworkFailure}
  ELSE {NetworkFailure}

\* C24: the upload only moves forward, so the token request, the drive
\* lookup and the put are each made at most once in a run; a failure at
\* any of its awaits ends the upload with a failure result, and the run
\* goes on to its one notification, a failure with the detail of that
\* failure.
C24_UploadFailureIsTerminal ==
  [][(ppc \in UploadSteps =>
       /\ ppc' \in {UploadOrder[i] : i \in 1..Len(UploadOrder)}
       /\ UploadRank(ppc') >= UploadRank(ppc)
       /\ puts' <= 1
       /\ launches' = launches
       /\ (ppc' # ppc /\ LastStage' = "FAILED") =>
            /\ ppc' = "send"
            /\ Len(notifications') = 1
            /\ ~notifications'[1].success
            /\ notifications'[1].error \in UploadErrorsAt(ppc)
            /\ notifications'[1].folderPath = Val(run.folderPath)
            /\ notifications'[1].fileName = run.fileName)]_vars

\* The put was answered 503: one put, and the notification has the status
\* and the body of the answer.
C24_Witness ==
  /\ ppc = "done"
  /\ puts = 1
  /\ stages = <<"PENDING", "PATH_RESOLVED", "RENDERING", "RENDERED",
                "UPLOADING", "FAILED">>
  /\ Len(notifications) = 1
  /\ notifications[1].error = Some(UploadFailed(503, ErrorBody))

\* C25: while the mail binding's send is awaited, whatever it settles with,
\* the run goes nowhere but to its end: the steps passed, the store, the
\* notifications made, the renders and the puts stay as they are, so no
\* second notification and no retry follows a send that failed.
C25_SendFailureIsSwallowed ==
  [][(ppc = "send" =>
       /\ ppc' \in {"send", "done"}
       /\ stages' = stages
       /\ notifications' = notifications
       /\ Len(notifications') = 1
       /\ stored' = stored
       /\ puts' = puts
       /\ launches' = launches)]_vars

\* The file was stored, the send of the success notification failed, and
\* the run ended as UPLOADED with its one notification.
C25_Witness ==
  /\ ppc = "done"
  /\ delivered = 0
  /\ LastStage = "UPLOADED"
  /\ stored # {}
  /\ Len(notifications) = 1
  /\ notifications[1].success

\* ------------------------------------------------------------------------
\* The manual upload script
\* ------------------------------------------------------------------------

\* C26: when the listing of the destination folder has resolved with an
\* entry of the computed file name, the script has exited with code 0,
\* launched no browser and uploaded nothing; when the listing has rejected,
\* or resolved without such an entry, the script has gone on to render; it
\* uploads only the PDF it rendered, once, to folderPath/fileName.
C26_ScriptSkipsExistingFile ==
  /\ (script.listed = "resolved" /\ script.fileName \in listing) =>
       /\ script.pc = "exited"
       /\ script.exitCode = Some(0)
       /\ script.launches = 0
       /\ script.uploads = <<>>
  /\ ( \/ script.listed = "rejected"
       \/ script.listed = "resolved" /\ script.fileName \notin listing ) =>
       /\ script.launches = 1
       /\ script.pc = "launch" => script.exitCode = Null
  /\ script.uploads # <<>> =>
       /\ script.pdf
       /\ script.uploads = <<script.folderPath \o Slash \o script.fileName>>
       /\ script.exitCode = Some(0)

\* The folder holds 01.21.26.pdf and the script ran on 21 Jan 2026: it has
\* exited with 0 straight from the listing.
C26_Witness ==
  /\ script.pc = "exited"
  /\ script.listed = "resolved"
  /\ script.exitCode = Some(0)
  /\ script.fileName \in listing
  /\ script.launches = 0
  /\ script.uploads = <<>>

\* ------------------------------------------------------------------------
\* The email handler: dispatch, notification, browser sessions
\* ------------------------------------------------------------------------

\* The messages that pass both gates of the handler.
PassingEmails ==
  {e \in Emails :
     /\ shouldProcessEmail(e.from)
     /\ ~IsNull(parseComplianceGoEmail(e.html, e.text, WorkerClock))}

PassesGates == email \in PassingEmails

\* C27: a run of processInspection exists only for a message that passes
\* both gates, and is started by one step of the handler, the one that
\* decodes the message and calls the forward; the handler never comes back
\* to that step, so at most one run is started, and for any other message
\* nothing is rendered, put or notified.
C27_DispatchOnlyThroughBothGates ==
  [][( /\ Dispatched' => PassesGates
       /\ ~PassesGates =>
            /\ launches' = 0 /\ puts' = 0 /\ stored' = {}
            /\ notifications' = <<>> /\ stages' = <<>>
       /\ (~Dispatched /\ Dispatched') =>
            /\ hpc = "decode" /\ hpc' = "forward"
            /\ stages'[1] = "PENDING"
       /\ hpc # "decode" => (hpc' # "decode" \/ hpc = "read")
       /\ Dispatched => (Dispatched' /\ run' = run /\ stages'[1] = "PENDING")
       /\ \A i \in 2..Len(stages') : stages'[i] # "PENDING" )]_vars

\* An allowed sender's report has been dispatched and its run has ended.
C27_Witness ==
  /\ PassesGates
  /\ ppc = "done"
  /\ hpc = "returned"
  /\ forwards = 1
  /\ Len(notifications) = 1

\* C28: a notification with success = true exists only in a run whose render
\* returned the PDF and whose put was answered ok, and its folderPath and
\* fileName are those of the path the store accepted; a run with no folder
\* path, with its renders exhausted, or with a failed upload step has
\* notified with success = false.
C28_SuccessOnlyAfterStoredUpload ==
  /\ \A i \in 1..Len(notifications) :
       notifications[i].success =>
         /\ pdf
         /\ puts = 1
         /\ LastStage = "UPLOADED"
         /\ stored = {notifications[i].folderPath \o Slash
                        \o notifications[i].fileName}
         /\ IsNull(notifications[i].error)
         /\ notifications[i].sharePointUrl
              = Some(StoreBase \o notifications[i].folderPath)
  /\ ( /\ Notified
       /\ \/ ~Routable
          \/ failures = MAX_PDF_RETRIES
          \/ LastStage = "FAILED" ) =>
       /\ Len(notifications) = 1
       /\ ~notifications[1].success
       /\ ~IsNull(notifications[1].error)

\* The run has ended with a success notification for the stored file.
C28_Witness ==
  /\ ppc = "done"
  /\ Len(notifications) = 1
  /\ notifications[1].success
  /\ stored = {Val(run.folderPath) \o Slash \o run.fileName}
  /\ failures > 0

\* C29: a browser session is opened only by a launch that finds none open
\* and is ended only by the close of the finally block; the close is called
\* only on a session that is open, so never twice on one; no session is open
\* when the next attempt launches or once generatePdf has returned or
\* thrown.
C29_OneBrowserSessionAtATime ==
  [][( /\ (~browser /\ browser') => (ppc = "launch" /\ ppc' = "newPage")
       /\ (browser /\ ~browser') => ppc = "close"
       /\ ppc' = "launch" => ~browser'
       /\ ppc' = "close" => browser'
       /\ (ppc = "close" /\ ppc' # "close") => ~browser'
       /\ ppc' \in UploadSteps \cup {"send", "done"} => ~browser'
       /\ (ppc = "launch" /\ ppc' \notin {"launch", "newPage"}) =>
            (~browser' /\ ppc' # "close") )]_vars

\* Five attempts each opened a session and failed later: none is open at
\* the end.
C29_Witness ==
  /\ failures = MAX_PDF_RETRIES
  /\ launches = MAX_PDF_RETRIES
  /\ ppc = "send"
  /\ ~browser
  /\ Val(rejected).name = TimeoutErrorName

\* ------------------------------------------------------------------------
\* The bucket selectors
\* ------------------------------------------------------------------------

\* C30: getLegacyInspectionPath(c) is c under the folder getProjectsFolder(c)
\* selects, for every contractor name c, one that starts with a digit
\* included, and the script's getProjectsFolder selects the same folder.
C30_BucketSelectorsAgree ==
  Returned("getLegacyInspectionPath") =>
    LET c == call.arg[1] IN
    /\ call.ret = PathRoot \o getProjectsFolder(c) \o Slash \o c
    /\ scriptGetProjectsFolder(c) = getProjectsFolder(c)

====
